---- MODULE Spec2Model ----
(***************************************************************************)
(* Model of the frame acquisition and decoding pipeline of the TCP to      *)
(* AEDAT4 converter: TcpReceiver (src/src/tcp_receiver.cpp) driven by an   *)
(* arbitrary single-threaded caller, FrameUnpacker::unpack in its three    *)
(* variants (2-bit packed, planar table-driven, planar per-pixel), and the *)
(* main loop of src/src/main.cpp that drives the two.                      *)
(***************************************************************************)
EXTENDS Integers, Sequences, FiniteSets, TLC

VARIABLES
    config,                  \* the Config the components hold a reference to
    \* ---- TcpReceiver members
    server_socket_,
    client_socket_,
    connected_,
    total_bytes_received_,
    total_frames_received_,
    \* ---- receiveFrame / receiveExact in progress
    pc,                      \* "idle" | "header" | "resize" | "payload"
    total_received,          \* receiveExact's local counter
    header_frame_size,       \* the 4 bytes of the uint32_t the header is read into
    frame_size,              \* receiveFrame's local frame_size
    frame_buffer,            \* the caller's std::vector<uint8_t>
    \* ---- environment: kernel socket table and the peer's byte stream
    open_fds,                \* descriptors currently open
    base,                    \* bytes of this connection consumed by finished calls
    stream,                  \* what the peer has sent from position `base` on
    rpos,                    \* how many bytes of `stream` recv() has delivered
    peer_open,               \* the peer has not shut its side down
    \* ---- call log (history)
    last,                    \* the latest call: [op, path, ret]
    entry,                   \* buffer and counters when the latest call was entered
                             \* (after a move: as the move left them)
    \* ---- the caller's other TcpReceiver
    other_receiver,          \* <<r>>: the caller has another receiver, r is its
                             \* members and the connection of its client socket;
                             \* <<>>: the caller has no other receiver
    \* ---- FrameUnpacker::unpack call
    frame_data,              \* the buffer handed to unpack
    frame_number,
    events,                  \* the caller's dv::EventStore
    num_events,              \* unpack's return value
    reads,                   \* byte reads done by the latest unpack
    \* ---- main (src/src/main.cpp)
    running,                 \* std::atomic<bool> running, cleared by the signal handler
    dpc,                     \* where main is
    frame_count,
    sink,                    \* the batches handed to writer.writeEvents, in order
    recovering,              \* (history) main is dealing with a failed receiveFrame
    \* ---- datagram receiver
    carry_over,              \* bytes received and not yet handed out as a frame
    datagrams,               \* (history) the datagrams received since the bind
    \* ---- the sender's side of a frame
    set_pixels,              \* (history) the pixels the sender wrote with set_pixel
    \* ---- accounting of the receiver's counters
    shortest_frame,          \* (history) <<n>>: the shortest frame returned on this
                             \* connection is n bytes long; <<>>: none was returned
    \* ---- cancellation of main
    batches_at_cancel        \* (history) <<n>>: the sink held n batches when running
                             \* was cleared; <<>>: running has not been cleared

tcpVars == <<server_socket_, client_socket_, connected_, total_bytes_received_,
             total_frames_received_, pc, total_received, header_frame_size,
             frame_size, frame_buffer, open_fds, base, stream, rpos, peer_open>>
decVars == <<frame_data, frame_number, events, num_events, reads>>
drvVars == <<running, dpc, frame_count, sink, recovering>>
udpVars == <<carry_over, datagrams>>
encVars == <<set_pixels>>
accVars == <<shortest_frame, batches_at_cancel>>
vars == <<config, tcpVars, last, entry, decVars, drvVars, accVars, udpVars, encVars, other_receiver>>

----------------------------------------------------------------------------
\* Bounds of the model

\* longest byte stream a peer sends on one connection
MaxStream == 11
\* the peer sends more only while at most this many bytes are undelivered
MaxInFlight == 1
\* longest frame a peer sends whole
MaxBuf == 3
\* payload bytes a peer sends of a frame announced longer than MaxBuf
MaxOversized == 1
\* highest descriptor the process may hold (its RLIMIT_NOFILE is MaxFd + 1):
\* socket() and accept() fail when no descriptor up to MaxFd is free
MaxFd == 4
\* frame numbers handed to unpack are 0..MaxFrameNumber
MaxFrameNumber == 1
\* unpack is called with buffers of 0..frame_size()+MaxExtra bytes
MaxExtra == 1
\* a peer of main stops sending when main has this many frames counted or on
\* their way
MaxFrames == 2
\* the caller hands the sockets of the receiver to another receiver when at
\* most this many bytes of the connection are unread
MaxMovedInFlight == 0
\* a caller with two receivers: it hands the receiver over to the other one
\* while the receiver has counted at most this many bytes, and while it has
\* the other receiver a peer sends at most this many bytes on one connection
MaxMovedStream == 2
\* longest byte stream a peer of main sends on one connection
MaxMainStream == 5
\* on the wide layouts only the last MaxTail bytes of a frame may be non-zero
MaxTail == 13
\* largest datagram a sender of the datagram receiver sends, in bytes
MaxDatagram == 4
\* the datagram receiver is followed until it has received this many bytes
MaxUdpBytes == 7

----------------------------------------------------------------------------
\* Program constants

INVALID_SOCK == -1
\* receiveFrame's sanity check: header values must be below this
SANITY_LIMIT == 100000000
\* sizeof(uint32_t header_frame_size)
HEADER_VAR_BYTES == 4

Min(a, b) == IF a < b THEN a ELSE b

----------------------------------------------------------------------------
\* Config (include/config.hpp holds two revisions of the struct)

\* a / b on ints, b > 0: C++ division truncates toward zero
CDiv(a, b) == IF a >= 0 THEN a \div b ELSE -((-a) \div b)

\* Config::total_pixels / pixels_per_channel
total_pixels(cfg) == cfg.width * cfg.height

\* Config::bytes_per_channel (planar revision)
bytes_per_channel(cfg) == CDiv(total_pixels(cfg), 8)

\* Config::frame_size: (total_pixels + 3) / 4 in the 2-bit packed revision,
\* 2 * bytes_per_channel in the planar revision
frame_size_of(cfg) ==
    IF cfg.variant = "packed"
    THEN CDiv(total_pixels(cfg) + 3, 4)
    ELSE 2 * bytes_per_channel(cfg)

\* TcpReceiver::getFrameSize
getFrameSize == frame_size_of(config)

MkConfig(variant, w, h, hasHeader, headerSize, msb, posFirst, rowMajor, interval) ==
    [variant |-> variant, width |-> w, height |-> h,
     has_header |-> hasHeader, header_size |-> headerSize,
     msb_first |-> msb, positive_first |-> posFirst, row_major |-> rowMajor,
     frame_interval_us |-> interval]

\* Configurations the receiver is exercised with: a 3x2 packed frame (2 bytes),
\* without header and with a header of 1 to 4 bytes
TcpConfigs ==
    { MkConfig("packed", 3, 2, FALSE, 4, FALSE, TRUE, TRUE, 10000) } \cup
    { MkConfig("packed", 3, 2, TRUE, hs, FALSE, TRUE, TRUE, 10000) : hs \in 1..4 }

----------------------------------------------------------------------------
\* Bytes and sequences of bytes

\* resize of a std::vector<uint8_t>: keeps the common prefix, zero-fills growth
ResizeClears(buf, n) == [i \in 1..n |-> 0]
Resize(buf, n) == [i \in 1..n |-> IF i <= Len(buf) THEN buf[i] ELSE 0]

\* memcpy of `bytes` into `target` at byte offset `off` (recv writes at
\* buffer + total_received)
PutBytesAtStart(target, off, bytes) ==
    [i \in 1..Len(target) |-> IF i <= Len(bytes) THEN bytes[i] ELSE target[i]]
PutBytes(target, off, bytes) ==
    [i \in 1..Len(target) |->
        IF i > off /\ i <= off + Len(bytes) THEN bytes[i - off] ELSE target[i]]

\* The caller's std::vector<uint8_t> as a value: its size() and its elements
\* up to the last one that is not 0 (every element behind `head` is 0). Two
\* vectors are equal exactly when these records are equal, and a vector of
\* 99,999,999 zero bytes is a small value
RECURSIVE StripZeros(_)
StripZeros(s) ==
    IF s = <<>> \/ s[Len(s)] # 0 THEN s ELSE StripZeros(SubSeq(s, 1, Len(s) - 1))

\* the vector holding the byte sequence s
Vec(s) == [size |-> Len(s), head |-> StripZeros(s)]

\* buffer[i - 1]
At(v, i) == IF i <= Len(v.head) THEN v.head[i] ELSE 0

\* the first n elements of the vector
Prefix(v, n) == [i \in 1..n |-> At(v, i)]

\* all the elements of the vector, buffer.data() .. buffer.data() + size()
Bytes(v) == v.head \o [i \in 1..(v.size - Len(v.head)) |-> 0]

\* buffer.resize(n)
VecResize(v, n) ==
    [size |-> n, head |-> StripZeros(Resize(v.head, Min(n, Len(v.head))))]

\* recv writing `bytes` at buffer.data() + off
VecPut(v, off, bytes) ==
    LET upto == IF Len(v.head) > off + Len(bytes) THEN Len(v.head) ELSE off + Len(bytes)
    IN  [size |-> v.size, head |-> StripZeros(PutBytes(Prefix(v, upto), off, bytes))]


U32LowByteOnly(b) == b[1]
U32(b) == b[1] + 256 * b[2] + 65536 * b[3] + 16777216 * b[4]

\* the n low-order bytes of h, least significant first (what the sender
\* transmits as an n-byte little-endian header)
LEBytes(h, n) == [i \in 1..n |-> (h \div (256 ^ (i - 1))) % 256]

----------------------------------------------------------------------------
\* The peer (environment)

\* payload byte values the peer sends (never 0, so that the zero fill of
\* vector::resize can be told from received data)
ByteVals == {1, 2}

\* header values the peer sends: zero, small lengths, the values around the
\* sanity limit, and 2^31 - 1 (the largest value TLC's integers hold; it stands
\* for the uint32_t values far above the limit)
HeaderValues == {0, 1, 3, 99999999, 100000000, 100000001, 2147483647}

\* how many payload bytes the peer sends after announcing length h
PeerPayloadLen(cfg, h) ==
    IF h >= 1 /\ h <= MaxBuf THEN h
    ELSE IF h = 0 \/ h >= SANITY_LIMIT THEN frame_size_of(cfg)
    ELSE 0

\* the payloads of n bytes the peer sends: neighbouring bytes differ
Payloads(n) ==
    { p \in [1..n -> ByteVals] : \A i \in 1..(n - 1) : p[i] # p[i + 1] }

\* one complete frame as the peer puts it on the wire
FramesFor(cfg) ==
    IF cfg.has_header
    THEN UNION { { LEBytes(h, cfg.header_size) \o p : p \in Payloads(PeerPayloadLen(cfg, h)) } :
                 h \in HeaderValues }
    ELSE Payloads(frame_size_of(cfg))

\* the payload length the receiver takes from the header of f
Announced(cfg, f) ==
    IF cfg.has_header
    THEN (IF U32(Resize(SubSeq(f, 1, cfg.header_size), HEADER_VAR_BYTES)) > 0
             /\ U32(Resize(SubSeq(f, 1, cfg.header_size), HEADER_VAR_BYTES)) < SANITY_LIMIT
          THEN U32(Resize(SubSeq(f, 1, cfg.header_size), HEADER_VAR_BYTES))
          ELSE frame_size_of(cfg))
    ELSE frame_size_of(cfg)

\* the frames a peer sends and goes on: those whose header announces no more
\* than MaxBuf bytes
PeerFrames ==
    [cfg \in TcpConfigs |-> { f \in FramesFor(cfg) : Announced(cfg, f) <= MaxBuf }]

\* a frame whose header announces more than MaxBuf bytes is never sent whole:
\* the peer dies after the header and at most MaxOversized bytes of payload
CutFrames(cfg) ==
    UNION { { SubSeq(f, 1, cfg.header_size) \o p :
                p \in UNION { [1..k -> ByteVals] : k \in 0..MaxOversized } } :
            f \in { g \in FramesFor(cfg) : Announced(cfg, g) > MaxBuf } }

\* a frame cut short: what a peer that dies in mid-frame has sent of it
PeerTruncated ==
    [cfg \in TcpConfigs |->
        UNION { { SubSeq(f, 1, n) : n \in 1..(Len(f) - 1) } : f \in PeerFrames[cfg] }
        \cup CutFrames(cfg) ]

InFlight == Len(stream) - rpos

----------------------------------------------------------------------------
\* TcpReceiver as a value: the members plus the kernel's descriptor table

Self ==
    [server_socket_ |-> server_socket_, client_socket_ |-> client_socket_,
     connected_ |-> connected_,
     total_bytes_received_ |-> total_bytes_received_,
     total_frames_received_ |-> total_frames_received_,
     open_fds |-> open_fds]

\* socket() / accept(): POSIX hands out the lowest free descriptor (0, 1 and 2
\* are the standard streams)
LowestFree(fds) ==
    CHOOSE f \in 3..(3 + Cardinality(fds)) :
        f \notin fds /\ \A g \in 3..(f - 1) : g \in fds

\* close(fd)
CloseFd(fds, fd) == fds \ {fd}

\* the descriptor table has room for one more descriptor
HasFreeFd(fds) == LowestFree(fds) <= MaxFd

\* TcpReceiver::disconnect
disconnectKeepsServer(o) ==
    LET o1 == IF o.client_socket_ # INVALID_SOCK
              THEN [o EXCEPT !.open_fds = CloseFd(@, o.client_socket_),
                             !.client_socket_ = INVALID_SOCK]
              ELSE o
    IN  [o1 EXCEPT !.connected_ = FALSE]
disconnectKeepsConnected(o) ==
    [o EXCEPT !.open_fds = @ \ {o.client_socket_, o.server_socket_},
              !.client_socket_ = INVALID_SOCK, !.server_socket_ = INVALID_SOCK]
disconnectResetsCounters(o) ==
    [o EXCEPT !.open_fds = {}, !.client_socket_ = INVALID_SOCK,
              !.server_socket_ = INVALID_SOCK, !.connected_ = FALSE,
              !.total_bytes_received_ = 0, !.total_frames_received_ = 0]
disconnect(o) ==
    LET o1 == IF o.client_socket_ # INVALID_SOCK
              THEN [o EXCEPT !.open_fds = CloseFd(@, o.client_socket_),
                             !.client_socket_ = INVALID_SOCK]
              ELSE o
        o2 == IF o1.server_socket_ # INVALID_SOCK
              THEN [o1 EXCEPT !.open_fds = CloseFd(@, o1.server_socket_),
                              !.server_socket_ = INVALID_SOCK]
              ELSE o1
    IN  [o2 EXCEPT !.connected_ = FALSE]

\* what the system calls of connect() up to listen() do: one of them fails, or
\* the socket is left listening
ListenOutcomes == {"socket_fail", "bind_fail", "listen_fail", "listening"}
\* what accept() does
AcceptOutcomes == {"accept_fail", "ok"}
ConnectOutcomes == ListenOutcomes \cup AcceptOutcomes

\* TcpReceiver::connect when connected_ is set: "Already connected", return true
connectAlreadyResets(o) ==
    [obj |-> [o EXCEPT !.total_bytes_received_ = 0, !.total_frames_received_ = 0],
     path |-> "already", ret |-> "true"]
connectAlready(o) ==
    [obj |-> o, path |-> "already", ret |-> "true"]

\* TcpReceiver::connect when connected_ is clear, up to the call of accept():
\* disconnect(), then socket, bind, listen; a failure of bind or listen goes
\* through disconnect(); with the socket listening the call goes on to accept
connectListen(o, outcome) ==
    LET o0 == disconnect(o)
    IN
    IF outcome = "socket_fail"
    THEN [obj |-> [o0 EXCEPT !.server_socket_ = INVALID_SOCK],
          path |-> outcome, ret |-> "false"]
    ELSE
      LET sfd == LowestFree(o0.open_fds)
          o1 == [o0 EXCEPT !.server_socket_ = sfd, !.open_fds = @ \cup {sfd}]
      IN
      IF outcome \in {"bind_fail", "listen_fail"}
      THEN [obj |-> disconnect(o1), path |-> outcome, ret |-> "false"]
      ELSE [obj |-> o1, path |-> "listening", ret |-> "pending"]

\* TcpReceiver::connect from the return of accept() on: a failure goes through
\* disconnect(); otherwise connected_ is set and the counters are zeroed
connectAcceptNoCleanup(o, outcome) ==
    IF outcome = "accept_fail"
    THEN [obj |-> [o EXCEPT !.client_socket_ = INVALID_SOCK],
          path |-> outcome, ret |-> "false"]
    ELSE
      LET cfd == LowestFree(o.open_fds)
          o2 == [o EXCEPT !.client_socket_ = cfd, !.open_fds = @ \cup {cfd}]
      IN  [obj |-> [o2 EXCEPT !.connected_ = TRUE,
                              !.total_bytes_received_ = 0,
                              !.total_frames_received_ = 0],
           path |-> "ok", ret |-> "true"]
connectAccept(o, outcome) ==
    IF outcome = "accept_fail"
    THEN [obj |-> disconnect([o EXCEPT !.client_socket_ = INVALID_SOCK]),
          path |-> outcome, ret |-> "false"]
    ELSE
      LET cfd == LowestFree(o.open_fds)
          o2 == [o EXCEPT !.client_socket_ = cfd, !.open_fds = @ \cup {cfd}]
      IN  [obj |-> [o2 EXCEPT !.connected_ = TRUE,
                              !.total_bytes_received_ = 0,
                              !.total_frames_received_ = 0],
           path |-> "ok", ret |-> "true"]

\* TcpReceiver::TcpReceiver(TcpReceiver&& other): the members of the new
\* object, copied from `other`, in a process whose descriptor table is fds
\* (the constructor opens and closes nothing)
moveConstruct(other, fds) ==
    [server_socket_ |-> other.server_socket_, client_socket_ |-> other.client_socket_,
     connected_ |-> other.connected_,
     total_bytes_received_ |-> other.total_bytes_received_,
     total_frames_received_ |-> other.total_frames_received_,
     open_fds |-> fds]

\* what the move constructor and the move assignment leave of `other`: both
\* handles invalid, connected_ clear, the counters kept, no descriptor closed
movedFrom(other) ==
    [other EXCEPT !.server_socket_ = INVALID_SOCK, !.client_socket_ = INVALID_SOCK,
                  !.connected_ = FALSE]

\* TcpReceiver::operator=(TcpReceiver&& other), this != &other: disconnect(),
\* then the handles, the flag and the counters of `other` (open_fds is the
\* one descriptor table of the process)
moveAssign(o, other) ==
    [server_socket_ |-> other.server_socket_, client_socket_ |-> other.client_socket_,
     connected_ |-> other.connected_,
     total_bytes_received_ |-> other.total_bytes_received_,
     total_frames_received_ |-> other.total_frames_received_,
     open_fds |-> disconnect(o).open_fds]

\* a TcpReceiver as its constructor leaves it, in a process whose descriptor
\* table is fds
Constructed(fds) ==
    [server_socket_ |-> INVALID_SOCK, client_socket_ |-> INVALID_SOCK,
     connected_ |-> FALSE, total_bytes_received_ |-> 0, total_frames_received_ |-> 0,
     open_fds |-> fds]

\* receiveFrame's choice of the payload length from the header value
ChooseFrameSizeNoZeroCheck(h, nominal) ==
    IF h < SANITY_LIMIT THEN h ELSE nominal
ChooseFrameSize(h, nominal) ==
    IF h > 0 /\ h < SANITY_LIMIT THEN h ELSE nominal

\* the descriptors the receiver holds, and those open in the process that it
\* does not hold (they belong to another TcpReceiver of the caller)
Held(o) == {o.server_socket_, o.client_socket_} \ {INVALID_SOCK}
Foreign(o) == o.open_fds \ Held(o)

\* another TcpReceiver of the caller (same Config): its members o, the
\* connection of its client socket and the length of the shortest frame it
\* has returned on it
Receiver(o, b, s, r, open, shortest) ==
    [server_socket_ |-> o.server_socket_, client_socket_ |-> o.client_socket_,
     connected_ |-> o.connected_,
     total_bytes_received_ |-> o.total_bytes_received_,
     total_frames_received_ |-> o.total_frames_received_,
     base |-> b, stream |-> s, rpos |-> r, peer_open |-> open, shortest |-> shortest]

\* the members of the receiver r with the descriptor table of the process
WithFds(r, fds) ==
    [server_socket_ |-> r.server_socket_, client_socket_ |-> r.client_socket_,
     connected_ |-> r.connected_,
     total_bytes_received_ |-> r.total_bytes_received_,
     total_frames_received_ |-> r.total_frames_received_,
     open_fds |-> fds]

\* snapshot of what a call can change, taken when the call is entered
Snapshot(buf, o) ==
    [frame_buffer |-> buf, total_bytes |-> o.total_bytes_received_,
     total_frames |-> o.total_frames_received_, foreign |-> Foreign(o)]

\* log entry of a call: the operation, the path it took, what it returned and,
\* for a failed receiveFrame, the read ("header" or "payload") that failed
Call(op, path, ret) == [op |-> op, path |-> path, ret |-> ret, at |-> "none"]
CallAt(op, path, ret, at) == [op |-> op, path |-> path, ret |-> ret, at |-> at]

----------------------------------------------------------------------------
\* Initial state: the objects as constructed (TcpReceiver::TcpReceiver, the
\* main loop's empty frame_buffer and EventStore)

InitTcp ==
    /\ server_socket_ = INVALID_SOCK
    /\ client_socket_ = INVALID_SOCK
    /\ connected_ = FALSE
    /\ total_bytes_received_ = 0
    /\ total_frames_received_ = 0
    /\ pc = "idle"
    /\ total_received = 0
    /\ header_frame_size = <<0, 0, 0, 0>>
    /\ frame_size = 0
    /\ frame_buffer = Vec(<<>>)
    /\ open_fds = {}
    /\ base = 0
    /\ stream = <<>>
    /\ rpos = 0
    /\ peer_open = FALSE
    /\ last = Call("init", "none", "none")
    /\ entry = Snapshot(frame_buffer, Self)
    /\ other_receiver = <<>>

InitDec ==
    /\ frame_data = <<>>
    /\ frame_number = 0
    /\ events = <<>>
    /\ num_events = 0
    /\ reads = {}

\* main before it has done anything: running{true}, frame_count = 0, nothing
\* written yet
InitDrv ==
    /\ running = TRUE
    /\ dpc = "start"
    /\ frame_count = 0
    /\ sink = <<>>
    /\ recovering = FALSE

\* the datagram receiver before it is bound
InitUdp ==
    /\ carry_over = <<>>
    /\ datagrams = <<>>

\* the sender has not written a pixel
InitEnc == set_pixels = {}

\* no frame has been returned, no signal has arrived
InitAcc ==
    /\ shortest_frame = <<>>
    /\ batches_at_cancel = <<>>

Init ==
    /\ config \in TcpConfigs
    /\ InitTcp
    /\ InitDec
    /\ InitDrv
    /\ InitUdp
    /\ InitEnc
    /\ InitAcc

----------------------------------------------------------------------------
\* Caller actions on the receiver (one thread: only between calls)

SetObj(o) ==
    \E v \in { o } :
        /\ server_socket_' = v.server_socket_
        /\ client_socket_' = v.client_socket_
        /\ connected_' = v.connected_
        /\ total_bytes_received_' = v.total_bytes_received_
        /\ total_frames_received_' = v.total_frames_received_
        /\ open_fds' = v.open_fds

\* close() of the client socket ends the connection: its stream is gone
DropConnection ==
    /\ base' = 0
    /\ stream' = <<>>
    /\ rpos' = 0
    /\ peer_open' = FALSE

\* the locals of a finished receiveFrame call are gone
ForgetLocals ==
    /\ total_received' = 0
    /\ header_frame_size' = <<0, 0, 0, 0>>
    /\ frame_size' = 0

\* receiver.connect(), up to its return or to the call of accept(), in which
\* it blocks until a peer connects or the call fails
Connect(outcome) ==
    /\ pc = "idle"
    /\ outcome \in ListenOutcomes
    /\ (~connected_ /\ outcome # "socket_fail") => HasFreeFd(disconnect(Self).open_fds)
    /\ \E r \in { IF connected_ THEN connectAlready(Self) ELSE connectListen(Self, outcome) } :
           /\ SetObj(r.obj)
           /\ last' = Call("connect", r.path, r.ret)
           /\ pc' = IF r.path = "listening" THEN "accept" ELSE "idle"
           /\ IF r.path = "already"
              THEN UNCHANGED <<base, stream, rpos, peer_open>>
              ELSE DropConnection
    /\ entry' = Snapshot(frame_buffer, Self)
    /\ ForgetLocals
    /\ UNCHANGED <<config, frame_buffer, decVars, udpVars, encVars>>

\* accept() returns and connect() runs to its end
Accept(outcome) ==
    /\ pc = "accept"
    /\ outcome \in AcceptOutcomes
    /\ outcome = "ok" => HasFreeFd(open_fds)
    /\ \E r \in { connectAccept(Self, outcome) } :
           /\ SetObj(r.obj)
           /\ last' = Call("connect", r.path, r.ret)
           /\ peer_open' = (r.path = "ok")
    /\ pc' = "idle"
    /\ UNCHANGED <<config, total_received, header_frame_size, frame_size, frame_buffer,
                   base, stream, rpos, entry, decVars, udpVars, encVars>>

\* the receivers the caller moves into the receiver: a temporary as
\* constructed (receiver = TcpReceiver(config)), or its other receiver,
\* whether that one holds sockets or not
Sources ==
    { Receiver(Constructed({}), 0, <<>>, 0, FALSE, <<>>) }
    \cup { other_receiver[i] : i \in 1..Len(other_receiver) }

\* other = std::move(receiver), or TcpReceiver other(std::move(receiver))
\* when the caller has no other receiver: the receiver is left without its
\* handles, which stay open in the other receiver, and with them the
\* connection; both have the counters of the receiver; an other receiver
\* that held sockets has closed them in its disconnect(). The caller does so
\* while the receiver has counted at most MaxMovedStream bytes and at most
\* MaxMovedInFlight bytes of its connection are unread. Bookkeeping: of the
\* stream of the connection the bytes not yet read are kept, as at the start
\* of a receiveFrame call; what the peer sends while the other receiver
\* holds the connection it sends when the receiver has it back
MoveFrom ==
    /\ pc = "idle"
    /\ Held(Self) # {} => InFlight <= MaxMovedInFlight
    /\ total_bytes_received_ <= MaxMovedStream
    /\ \E target \in { IF other_receiver # <<>>
                        THEN moveAssign(WithFds(other_receiver[1], open_fds), Self)
                        ELSE moveConstruct(Self, open_fds) } :
           /\ SetObj([movedFrom(Self) EXCEPT !.open_fds = target.open_fds])
           /\ other_receiver' = << Receiver(target, base + rpos,
                                            SubSeq(stream, rpos + 1, Len(stream)),
                                            0, peer_open, shortest_frame) >>
    /\ DropConnection
    /\ last' = Call("move_from", "none", "none")
    /\ entry' = Snapshot(frame_buffer, Self')
    /\ ForgetLocals
    /\ UNCHANGED <<config, pc, frame_buffer, decVars, udpVars, encVars>>

\* receiver = std::move(src): disconnect() closes the sockets of the
\* receiver, which then has the handles, the flag and the counters of src
\* and, with the client socket, its connection; src is left without handles
\* and keeps its counters
MoveAssign(src) ==
    /\ pc = "idle"
    /\ src \in Sources
    /\ SetObj(moveAssign(Self, src))
    /\ base' = src.base /\ stream' = src.stream /\ rpos' = src.rpos
    /\ peer_open' = src.peer_open
    /\ other_receiver' = IF other_receiver # <<>> /\ src = other_receiver[1]
                         THEN << Receiver(movedFrom(src), 0, <<>>, 0, FALSE, src.shortest) >>
                         ELSE other_receiver
    /\ last' = Call("move_assign", "none", "none")
    /\ entry' = Snapshot(frame_buffer, Self')
    /\ ForgetLocals
    /\ UNCHANGED <<config, pc, frame_buffer, decVars, udpVars, encVars>>

\* TcpReceiver receiver(std::move(src)): the caller goes on with the new
\* object in the place of a receiver that holds no socket
MoveConstruct(src) ==
    /\ pc = "idle"
    /\ src \in Sources
    /\ Held(Self) = {}
    /\ SetObj(moveConstruct(src, open_fds))
    /\ base' = src.base /\ stream' = src.stream /\ rpos' = src.rpos
    /\ peer_open' = src.peer_open
    /\ other_receiver' = IF other_receiver # <<>> /\ src = other_receiver[1]
                         THEN << Receiver(movedFrom(src), 0, <<>>, 0, FALSE, src.shortest) >>
                         ELSE other_receiver
    /\ last' = Call("move_construct", "none", "none")
    /\ entry' = Snapshot(frame_buffer, Self')
    /\ ForgetLocals
    /\ UNCHANGED <<config, pc, frame_buffer, decVars, udpVars, encVars>>

\* ~TcpReceiver of the other receiver: its disconnect() closes the sockets it
\* holds, if any
OtherDestroyed ==
    /\ pc = "idle"
    /\ other_receiver # <<>>
    /\ open_fds' = disconnect(WithFds(other_receiver[1], open_fds)).open_fds
    /\ other_receiver' = <<>>
    /\ UNCHANGED <<config, server_socket_, client_socket_, connected_,
                   total_bytes_received_, total_frames_received_, pc, total_received,
                   header_frame_size, frame_size, frame_buffer, base, stream, rpos,
                   peer_open, last, entry, decVars, udpVars, encVars>>

\* receiver.disconnect()
Disconnect ==
    /\ pc = "idle"
    /\ SetObj(disconnect(Self))
    /\ DropConnection
    /\ last' = Call("disconnect",
                    IF connected_ THEN "from_connected"
                    ELSE IF client_socket_ # INVALID_SOCK THEN "from_failed_receive"
                    ELSE "from_disconnected",
                    "none")
    /\ entry' = Snapshot(frame_buffer, Self)
    /\ ForgetLocals
    /\ UNCHANGED <<config, pc, frame_buffer, decVars, udpVars, encVars>>

\* receiver.receiveFrame(frame_buffer): entry, up to the first blocking call
ReceiveFrameReadsUnconnected ==
    /\ pc = "idle"
    /\ entry' = Snapshot(frame_buffer, Self)
    /\ last' = Call("receiveFrame", "running", "pending")
    /\ frame_size' = getFrameSize
    /\ total_received' = 0
    /\ header_frame_size' = <<0, 0, 0, 0>>
    /\ pc' = IF config.has_header THEN "header" ELSE "resize"
    /\ base' = base + rpos
    /\ stream' = SubSeq(stream, rpos + 1, Len(stream))
    /\ rpos' = 0
    /\ UNCHANGED <<config, server_socket_, client_socket_, connected_,
                   total_bytes_received_, total_frames_received_, frame_buffer,
                   open_fds, peer_open, decVars, udpVars, encVars>>
ReceiveFrameReconnects ==
    /\ pc = "idle"
    /\ entry' = Snapshot(frame_buffer, Self)
    /\ connected_' = TRUE
    /\ last' = Call("receiveFrame", "running", "pending")
    /\ frame_size' = getFrameSize
    /\ total_received' = 0
    /\ header_frame_size' = <<0, 0, 0, 0>>
    /\ pc' = IF config.has_header THEN "header" ELSE "resize"
    /\ base' = base + rpos
    /\ stream' = SubSeq(stream, rpos + 1, Len(stream))
    /\ rpos' = 0
    /\ UNCHANGED <<config, server_socket_, client_socket_,
                   total_bytes_received_, total_frames_received_, frame_buffer,
                   open_fds, peer_open, decVars, udpVars, encVars>>
ReceiveFrame ==
    /\ pc = "idle"
    /\ entry' = Snapshot(frame_buffer, Self)
    /\ IF ~connected_
       THEN /\ last' = Call("receiveFrame", "not_connected", "false")
            /\ ForgetLocals
            /\ UNCHANGED <<pc, base, stream, rpos>>
       ELSE /\ last' = Call("receiveFrame", "running", "pending")
            /\ frame_size' = getFrameSize
            /\ total_received' = 0
            /\ header_frame_size' = <<0, 0, 0, 0>>
            /\ pc' = IF config.has_header THEN "header" ELSE "resize"
            \* bookkeeping: `stream` starts where this call starts reading
            /\ base' = base + rpos
            /\ stream' = SubSeq(stream, rpos + 1, Len(stream))
            /\ rpos' = 0
    /\ UNCHANGED <<config, server_socket_, client_socket_, connected_,
                   total_bytes_received_, total_frames_received_, frame_buffer,
                   open_fds, peer_open, decVars, udpVars, encVars>>

\* buffer.resize(frame_size), then receiveExact(buffer.data(), frame_size) up
\* to its first recv (a zero-length receiveExact returns true at once)
ResizeBuffer ==
    /\ pc = "resize"
    /\ frame_buffer' = VecResize(frame_buffer, frame_size)
    /\ total_received' = 0
    /\ IF frame_size = 0
       THEN /\ total_frames_received_' = total_frames_received_ + 1
            /\ last' = Call("receiveFrame", "complete", "true")
            /\ pc' = "idle"
       ELSE /\ pc' = "payload"
            /\ UNCHANGED <<total_frames_received_, last>>
    /\ UNCHANGED <<config, server_socket_, client_socket_, connected_,
                   total_bytes_received_, header_frame_size, frame_size,
                   open_fds, base, stream, rpos, peer_open, entry, decVars, udpVars, encVars>>

\* the size argument of the receiveExact call in progress
WantedSize == IF pc = "header" THEN config.header_size ELSE frame_size

\* the length recv is asked for: size - total_received
RecvRequest(size, got) == size - got

\* recv returns k > 0 bytes: receiveExact stores them at offset total_received
\* and, once it has them all, receiveFrame goes on
RecvDataCountsPayloadOnly(k) ==
    /\ pc \in {"header", "payload"}
    /\ k >= 1
    /\ k <= Min(RecvRequest(WantedSize, total_received), InFlight)
    /\ LET bytes == SubSeq(stream, rpos + 1, rpos + k)
           done == total_received + k >= WantedSize
       IN  /\ rpos' = rpos + k
           /\ total_received' = total_received + k
           /\ total_bytes_received_' =
                  IF pc = "header" THEN total_bytes_received_ ELSE total_bytes_received_ + k
           /\ IF pc = "header"
              THEN /\ header_frame_size' = PutBytes(header_frame_size, total_received, bytes)
                   /\ UNCHANGED <<frame_buffer, total_frames_received_, last>>
                   /\ IF done
                      THEN /\ frame_size' = ChooseFrameSize(U32(header_frame_size'), getFrameSize)
                           /\ pc' = "resize"
                      ELSE UNCHANGED <<frame_size, pc>>
              ELSE /\ frame_buffer' = VecPut(frame_buffer, total_received, bytes)
                   /\ UNCHANGED <<header_frame_size, frame_size>>
                   /\ IF done
                      THEN /\ total_frames_received_' = total_frames_received_ + 1
                           /\ last' = Call("receiveFrame", "complete", "true")
                           /\ pc' = "idle"
                      ELSE UNCHANGED <<total_frames_received_, last, pc>>
    /\ UNCHANGED <<config, server_socket_, client_socket_, connected_, open_fds,
                   base, stream, peer_open, entry, decVars, udpVars, encVars>>
RecvData(k) ==
    /\ pc \in {"header", "payload"}
    /\ k >= 1
    /\ k <= Min(RecvRequest(WantedSize, total_received), InFlight)
    /\ LET bytes == SubSeq(stream, rpos + 1, rpos + k)
           done == total_received + k >= WantedSize
       IN  /\ rpos' = rpos + k
           /\ total_received' = total_received + k
           /\ total_bytes_received_' = total_bytes_received_ + k
           /\ IF pc = "header"
              THEN /\ header_frame_size' = PutBytes(header_frame_size, total_received, bytes)
                   /\ UNCHANGED <<frame_buffer, total_frames_received_, last>>
                   /\ IF done
                      THEN /\ frame_size' = ChooseFrameSize(U32(header_frame_size'), getFrameSize)
                           /\ pc' = "resize"
                      ELSE UNCHANGED <<frame_size, pc>>
              ELSE /\ frame_buffer' = VecPut(frame_buffer, total_received, bytes)
                   /\ UNCHANGED <<header_frame_size, frame_size>>
                   /\ IF done
                      THEN /\ total_frames_received_' = total_frames_received_ + 1
                           /\ last' = Call("receiveFrame", "complete", "true")
                           /\ pc' = "idle"
                      ELSE UNCHANGED <<total_frames_received_, last, pc>>
    /\ UNCHANGED <<config, server_socket_, client_socket_, connected_, open_fds,
                   base, stream, peer_open, entry, decVars, udpVars, encVars>>

\* recv returns 0 (peer closed, nothing left to deliver) or < 0 (error):
\* receiveExact clears connected_ and returns false, and so does receiveFrame
RecvFailKeepsConnected(how) ==
    /\ pc \in {"header", "payload"}
    /\ how = "eof" => (~peer_open /\ InFlight = 0)
    /\ last' = CallAt("receiveFrame", how, "false", pc)
    /\ pc' = "idle"
    /\ UNCHANGED <<config, server_socket_, client_socket_, connected_,
                   total_bytes_received_, total_frames_received_, total_received,
                   header_frame_size, frame_size, frame_buffer, open_fds, base,
                   stream, rpos, peer_open, entry, decVars, udpVars, encVars>>
RecvFail(how) ==
    /\ pc \in {"header", "payload"}
    /\ how = "eof" => (~peer_open /\ InFlight = 0)
    /\ connected_' = FALSE
    /\ last' = CallAt("receiveFrame", how, "false", pc)
    /\ pc' = "idle"
    /\ UNCHANGED <<config, server_socket_, client_socket_,
                   total_bytes_received_, total_frames_received_, total_received,
                   header_frame_size, frame_size, frame_buffer, open_fds, base,
                   stream, rpos, peer_open, entry, decVars, udpVars, encVars>>

----------------------------------------------------------------------------
\* Peer actions

\* the connection is up, the peer is alive and its send window has room
PeerReady ==
    /\ connected_
    /\ peer_open
    /\ InFlight <= MaxInFlight

\* the peer has room for f on this connection
PeerCanSend(f) ==
    /\ PeerReady
    /\ base + Len(stream) + Len(f) <= MaxStream
    /\ other_receiver # <<>> => base + Len(stream) + Len(f) <= MaxMovedStream

\* the peer writes one complete frame
PeerSend(f) ==
    /\ PeerCanSend(f)
    /\ stream' = stream \o f
    /\ UNCHANGED <<config, server_socket_, client_socket_, connected_,
                   total_bytes_received_, total_frames_received_, pc, total_received,
                   header_frame_size, frame_size, frame_buffer, open_fds, base,
                   rpos, peer_open, last, entry, decVars, udpVars, encVars>>

\* the peer writes part of a frame and dies
PeerSendTruncated(f) ==
    /\ PeerCanSend(f)
    /\ stream' = stream \o f
    /\ peer_open' = FALSE
    /\ UNCHANGED <<config, server_socket_, client_socket_, connected_,
                   total_bytes_received_, total_frames_received_, pc, total_received,
                   header_frame_size, frame_size, frame_buffer, open_fds, base,
                   rpos, last, entry, decVars, udpVars, encVars>>

\* the peer closes the connection between frames
PeerClose ==
    /\ connected_
    /\ peer_open
    /\ peer_open' = FALSE
    /\ UNCHANGED <<config, server_socket_, client_socket_, connected_,
                   total_bytes_received_, total_frames_received_, pc, total_received,
                   header_frame_size, frame_size, frame_buffer, open_fds, base,
                   stream, rpos, last, entry, decVars, udpVars, encVars>>

----------------------------------------------------------------------------
\* FrameUnpacker

\* byte values of the frames handed to unpack: 0 (no event), 27 = 00 01 10 11
\* and 228 = 11 10 01 00 (every 2-bit value in every slot; complementary,
\* asymmetric bit patterns)
DecodeBytes == {0, 27, 228}

\* byte values of the frames that hold a single non-zero byte: the lone first
\* slots 01 (64) and 10 (128) of a packed frame; the lone bit 0 (1) and 228 of
\* a planar frame
LoneBytes(cfg) == IF cfg.variant = "packed" THEN {64, 128} ELSE {1, 228}

\* layouts unpack is exercised with on every frame over DecodeBytes: packed
\* 2x2 (1 byte) and 3x2 (2 bytes, two padding pixels); planar 4x2 (8 pixels
\* per plane) and 3x3 (9 pixels per plane), in all 8 combinations of bit,
\* channel and scan order, for the table-driven ("planar_fast") and the
\* per-pixel ("planar_ref") unpacker
DenseConfigs ==
    { MkConfig("packed", d[1], d[2], FALSE, 4, FALSE, TRUE, TRUE, 10000) :
        d \in {<<2, 2>>, <<3, 2>>} } \cup
    { MkConfig(v, d[1], d[2], FALSE, 4, msb, pf, rm, 2000) :
        v \in {"planar_fast", "planar_ref"}, d \in {<<4, 2>>, <<3, 3>>},
        msb \in BOOLEAN, pf \in BOOLEAN, rm \in BOOLEAN }

\* planar 8x8 (8 bytes per plane), exercised on frames with a single non-zero
\* byte
SparseConfigs ==
    { MkConfig(v, 8, 8, FALSE, 4, msb, pf, rm, 2000) :
        v \in {"planar_fast", "planar_ref"},
        msb \in BOOLEAN, pf \in BOOLEAN, rm \in BOOLEAN }

DecodeConfigs == DenseConfigs \cup SparseConfigs

\* static_cast<int16_t>
Int16(v) == ((v + 32768) % 65536) - 32768

\* byte & (1 << bit) != 0
BitSet(byte, bit) == (byte \div (2 ^ bit)) % 2 = 1

\* dv::EventStore::emplace_back(timestamp, x, y, polarity)
Event(ts, x, y, p) == [timestamp |-> ts, x |-> x, y |-> y, polarity |-> p]

\* frame_data[i] for a 0-based i: `mem` is the buffer followed by whatever
\* lies behind it in memory
ByteAt(mem, i) == mem[i + 1]

\* timestamp = static_cast<int64_t>(frame_number) * frame_interval_us
TimestampOfNextFrame(cfg, fn) == (fn + 1) * cfg.frame_interval_us
Timestamp(cfg, fn) == fn * cfg.frame_interval_us

\* ---- 2-bit packed unpacker

\* FrameUnpacker::FrameUnpacker: byte_to_base_pixel_
byte_to_base_pixel(cfg) == [byte_idx \in 0..(frame_size_of(cfg) - 1) |-> byte_idx * 4]

\* one pixel slot of a byte: the inner loop body
PackedPixelSwapsPolarity(cfg, ts, byte_val, byte_idx, px_in_byte) ==
    LET shift == 6 - (px_in_byte * 2)
        pixel_val == (byte_val \div (2 ^ shift)) % 4
        pixel_idx == byte_to_base_pixel(cfg)[byte_idx] + px_in_byte
    IN  IF pixel_val = 0 \/ pixel_val = 3 THEN <<>>
        ELSE IF pixel_idx >= total_pixels(cfg) THEN <<>>
        ELSE << Event(ts, Int16(pixel_idx % cfg.width), Int16(pixel_idx \div cfg.width),
                      pixel_val = 2) >>
PackedPixelLowPairFirst(cfg, ts, byte_val, byte_idx, px_in_byte) ==
    LET shift == px_in_byte * 2
        pixel_val == (byte_val \div (2 ^ shift)) % 4
        pixel_idx == byte_to_base_pixel(cfg)[byte_idx] + px_in_byte
    IN  IF pixel_val = 0 \/ pixel_val = 3 THEN <<>>
        ELSE IF pixel_idx >= total_pixels(cfg) THEN <<>>
        ELSE << Event(ts, Int16(pixel_idx % cfg.width), Int16(pixel_idx \div cfg.width),
                      pixel_val = 1) >>
PackedPixel(cfg, ts, byte_val, byte_idx, px_in_byte) ==
    LET shift == 6 - (px_in_byte * 2)
        pixel_val == (byte_val \div (2 ^ shift)) % 4
        pixel_idx == byte_to_base_pixel(cfg)[byte_idx] + px_in_byte
    IN  IF pixel_val = 0 \/ pixel_val = 3 THEN <<>>
        ELSE IF pixel_idx >= total_pixels(cfg) THEN <<>>
        ELSE << Event(ts, Int16(pixel_idx % cfg.width), Int16(pixel_idx \div cfg.width),
                      pixel_val = 1) >>

\* one byte: skipped when zero, else its 4 slots, first slot in bits 7-6
PackedByteLastSlotFirst(cfg, ts, byte_val, byte_idx) ==
    IF byte_val = 0 THEN <<>>
    ELSE PackedPixel(cfg, ts, byte_val, byte_idx, 3) \o
         PackedPixel(cfg, ts, byte_val, byte_idx, 2) \o
         PackedPixel(cfg, ts, byte_val, byte_idx, 1) \o
         PackedPixel(cfg, ts, byte_val, byte_idx, 0)
PackedByte(cfg, ts, byte_val, byte_idx) ==
    IF byte_val = 0 THEN <<>>
    ELSE PackedPixel(cfg, ts, byte_val, byte_idx, 0) \o
         PackedPixel(cfg, ts, byte_val, byte_idx, 1) \o
         PackedPixel(cfg, ts, byte_val, byte_idx, 2) \o
         PackedPixel(cfg, ts, byte_val, byte_idx, 3)

\* the loop over byte_idx, from byte_idx on: zero bytes are passed over by
\* `continue`, so the loop goes on at the first non-zero byte, if any
RECURSIVE PackedFrom(_, _, _, _)
PackedFrom(cfg, ts, mem, byte_idx) ==
    LET nonzero == { i \in byte_idx..(frame_size_of(cfg) - 1) : ByteAt(mem, i) # 0 }
    IN  IF nonzero = {} THEN <<>>
        ELSE LET at == CHOOSE i \in nonzero : \A j \in nonzero : i <= j
             IN  PackedByte(cfg, ts, ByteAt(mem, at), at) \o
                 PackedFrom(cfg, ts, mem, at + 1)

PackedReads(cfg) ==
    { [plane |-> "frame", idx |-> i] : i \in 0..(frame_size_of(cfg) - 1) }

\* ---- planar unpackers: channel pointers

\* pos_channel / neg_channel as offsets into frame_data
PosOffset(cfg) == IF cfg.positive_first THEN 0 ELSE bytes_per_channel(cfg)
NegOffset(cfg) == IF cfg.positive_first THEN bytes_per_channel(cfg) ELSE 0

\* ---- planar table-driven unpacker

\* initLookupTables: bit_positions_[byte_val], the first bit_counts_[byte_val] slots
bit_positions(cfg, byte_val) ==
    SelectSeq(<<0, 1, 2, 3, 4, 5, 6, 7>>,
              LAMBDA bit : BitSet(byte_val, IF cfg.msb_first THEN 7 - bit ELSE bit))

\* initLookupTables: byte_to_base_x_ / byte_to_base_y_
byte_to_base_x(cfg, byte_idx) ==
    IF cfg.row_major THEN Int16((byte_idx * 8) % cfg.width)
    ELSE Int16((byte_idx * 8) \div cfg.height)
byte_to_base_y(cfg, byte_idx) ==
    IF cfg.row_major THEN Int16((byte_idx * 8) \div cfg.width)
    ELSE Int16((byte_idx * 8) % cfg.height)

\* unpackChannelFast: the event of one set bit. base_x and base_y are int16_t
\* table entries, negative from base coordinate 32768 on, and total_x / width,
\* total_x % width are int operations: the quotient truncates toward zero and
\* the remainder total_x - width * (total_x / width) has the sign of total_x
FastEvent(cfg, ts, polarity, byte_idx, bit_offset) ==
    LET base_x == byte_to_base_x(cfg, byte_idx)
        base_y == byte_to_base_y(cfg, byte_idx)
    IN  IF cfg.row_major
        THEN LET total_x == base_x + bit_offset
                 q == CDiv(total_x, cfg.width)
             IN  Event(ts, Int16(total_x - cfg.width * q),
                       Int16(base_y + q), polarity)
        ELSE LET total_y == base_y + bit_offset
                 q == CDiv(total_y, cfg.height)
             IN  Event(ts, Int16(base_x + q),
                       Int16(total_y - cfg.height * q), polarity)

\* unpackChannelFast: one byte of the channel
FastByte(cfg, ts, polarity, byte_val, byte_idx) ==
    IF byte_val = 0 THEN <<>>
    ELSE LET bits == bit_positions(cfg, byte_val)
         IN  [i \in 1..Len(bits) |-> FastEvent(cfg, ts, polarity, byte_idx, bits[i])]

\* unpackChannelFast: the loop over byte_idx, from byte_idx on: zero bytes are
\* passed over by `continue`, so the loop goes on at the first non-zero byte of
\* the channel, if any
RECURSIVE unpackChannelFast(_, _, _, _, _, _)
unpackChannelFast(cfg, ts, polarity, mem, offset, byte_idx) ==
    LET nonzero == { i \in byte_idx..(bytes_per_channel(cfg) - 1) :
                       ByteAt(mem, offset + i) # 0 }
    IN  IF nonzero = {} THEN <<>>
        ELSE LET at == CHOOSE i \in nonzero : \A j \in nonzero : i <= j
             IN  FastByte(cfg, ts, polarity, ByteAt(mem, offset + at), at) \o
                 unpackChannelFast(cfg, ts, polarity, mem, offset, at + 1)

FastReads(cfg) ==
    { [plane |-> p, idx |-> (IF p = "pos" THEN PosOffset(cfg) ELSE NegOffset(cfg)) + i] :
        p \in {"pos", "neg"}, i \in 0..(bytes_per_channel(cfg) - 1) }

\* ---- planar per-pixel unpacker (src/src/frame_unpacker.cpp)

\* FrameUnpacker::getBitIndex
getBitIndex(cfg, x, y) ==
    IF cfg.row_major THEN y * cfg.width + x ELSE x * cfg.height + y

\* the byte of the channel that getBit(data, x, y) reads
getBitByteIndex(cfg, x, y) == getBitIndex(cfg, x, y) \div 8

\* FrameUnpacker::getBit on the channel starting at `offset`
getBit(cfg, mem, offset, x, y) ==
    LET bit_index == getBitIndex(cfg, x, y)
        bit_offset == IF cfg.msb_first THEN 7 - (bit_index % 8) ELSE bit_index % 8
    IN  BitSet(ByteAt(mem, offset + getBitByteIndex(cfg, x, y)), bit_offset)

\* the body of the pixel loop: positive channel first, then negative
RefPixel(cfg, ts, mem, x, y) ==
    (IF getBit(cfg, mem, PosOffset(cfg), x, y)
     THEN << Event(ts, Int16(x), Int16(y), TRUE) >> ELSE <<>>) \o
    (IF getBit(cfg, mem, NegOffset(cfg), x, y)
     THEN << Event(ts, Int16(x), Int16(y), FALSE) >> ELSE <<>>)

\* for y ... for x ..., from pixel number n = y * width + x on
RECURSIVE RefFrom(_, _, _, _)
RefFrom(cfg, ts, mem, n) ==
    IF n >= cfg.width * cfg.height THEN <<>>
    ELSE RefPixel(cfg, ts, mem, n % cfg.width, n \div cfg.width) \o
         RefFrom(cfg, ts, mem, n + 1)

RefReads(cfg) ==
    UNION { { [plane |-> "pos", idx |-> PosOffset(cfg) + getBitByteIndex(cfg, x, y)],
              [plane |-> "neg", idx |-> NegOffset(cfg) + getBitByteIndex(cfg, x, y)] } :
            x \in 0..(cfg.width - 1), y \in 0..(cfg.height - 1) }

\* ---- unpack

\* the byte reads of a call that passes the size check
ReadsOf(cfg) ==
    IF cfg.variant = "packed" THEN PackedReads(cfg)
    ELSE IF cfg.variant = "planar_fast" THEN FastReads(cfg)
    ELSE RefReads(cfg)

\* the same, worked out once for each layout unpack is exercised with
ReadsTable == [cfg \in DecodeConfigs |-> ReadsOf(cfg)]
ReadsIn(cfg) == IF cfg \in DOMAIN ReadsTable THEN ReadsTable[cfg] ELSE ReadsOf(cfg)

\* how many bytes behind a data_size-byte buffer such a call reads
Overrun(cfg, data_size) ==
    LET beyond == { r.idx - data_size + 1 : r \in { q \in ReadsOf(cfg) : q.idx >= data_size } }
    IN  IF beyond = {} THEN 0 ELSE CHOOSE m \in beyond : \A o \in beyond : o <= m

\* the same, from the index behind the last byte read, worked out once for each
\* layout unpack is exercised with
ReadEndTable == [cfg \in DecodeConfigs |-> Overrun(cfg, 0)]
OverrunOf(cfg, data_size) ==
    IF cfg \in DOMAIN ReadEndTable
    THEN (IF ReadEndTable[cfg] > data_size THEN ReadEndTable[cfg] - data_size ELSE 0)
    ELSE Overrun(cfg, data_size)

\* the events of a call that passes the size check
Decoded(cfg, ts, mem) ==
    IF cfg.variant = "packed" THEN PackedFrom(cfg, ts, mem, 0)
    ELSE IF cfg.variant = "planar_fast"
    THEN unpackChannelFast(cfg, ts, TRUE, mem, PosOffset(cfg), 0) \o
         unpackChannelFast(cfg, ts, FALSE, mem, NegOffset(cfg), 0)
    ELSE RefFrom(cfg, ts, mem, 0)

\* FrameUnpacker::unpack(frame_data, data_size, frame_number, events): the
\* store afterwards and the value returned. `mem` is frame_data followed by
\* the memory behind it; `store` is the caller's EventStore before the call
unpackCountsStoreWhenUndersized(cfg, mem, data_size, fn, store) ==
    IF data_size < frame_size_of(cfg)
    THEN [events |-> store, ret |-> Len(store), reads |-> {}]
    ELSE LET out == Decoded(cfg, Timestamp(cfg, fn), mem)
         IN  [events |-> out, ret |-> Len(out), reads |-> ReadsIn(cfg)]
unpack(cfg, mem, data_size, fn, store) ==
    IF data_size < frame_size_of(cfg)
    THEN [events |-> store, ret |-> 0, reads |-> {}]
    ELSE LET out == Decoded(cfg, Timestamp(cfg, fn), mem)
         IN  [events |-> out, ret |-> Len(out), reads |-> ReadsIn(cfg)]

\* unpacker.unpack(buf, fn, events); a read past the end of buf is undefined
\* behaviour and returns any byte
Unpack(buf, fn, behind) ==
    /\ \E mem \in { buf \o behind } :
       \E r \in { unpack(config, mem, Len(buf), fn, events) } :
           /\ events' = r.events
           /\ num_events' = r.ret
           /\ reads' = r.reads
           /\ last' = Call("unpack",
                           IF Len(buf) < frame_size_of(config) THEN "undersized" ELSE "decoded",
                           "none")
    /\ frame_data' = buf
    /\ frame_number' = fn
    /\ UNCHANGED <<config, tcpVars, entry, udpVars, encVars>>

BuffersUpTo(n) == UNION { [1..k -> DecodeBytes] : k \in 0..n }

\* frames of frame_size() bytes with a single non-zero byte
LoneByteBuffers(cfg) ==
    { [i \in 1..frame_size_of(cfg) |-> IF i = k THEN v ELSE 0] :
        k \in 1..frame_size_of(cfg), v \in LoneBytes(cfg) }

\* buffers longer than frame_size(): a frame followed by 1..MaxExtra bytes of
\* value 27 (bit 0 set, bit 7 clear)
LongBuffers(cfg) ==
    { b \o [i \in 1..k |-> 27] :
        b \in [1..frame_size_of(cfg) -> DecodeBytes], k \in 1..MaxExtra }

\* the buffers unpack is called with
Buffers(cfg) ==
    LoneByteBuffers(cfg) \cup
    (IF cfg \in DenseConfigs
     THEN BuffersUpTo(frame_size_of(cfg)) \cup LongBuffers(cfg)
     ELSE {})

\* the memory contents an overrunning call may find behind buf
Behind(cfg, data_size) ==
    [1..(IF data_size < frame_size_of(cfg) THEN 0 ELSE OverrunOf(cfg, data_size))
        -> DecodeBytes]

InitUnpack ==
    /\ config \in DecodeConfigs
    /\ InitTcp
    /\ InitDec
    /\ InitDrv
    /\ InitUdp
    /\ InitEnc
    /\ InitAcc

NextUnpack ==
    \E buf \in Buffers(config), fn \in 0..MaxFrameNumber :
        \E behind \in Behind(config, Len(buf)) :
            Unpack(buf, fn, behind) /\ UNCHANGED <<drvVars, accVars, other_receiver>>

SpecUnpack == InitUnpack /\ [][NextUnpack]_vars

\* ---- unpack on layouts whose coordinates do not fit the int16_t fields of an
\* event: Config::width and Config::height are plain ints

\* 32770 x 1 and 1 x 32770 pixels, 2-bit packed: 8193 bytes, the last byte
\* holding pixels 32768 and 32769 and two padding slots; 40000 x 1 row-major
\* and 1 x 40000 column-major, planar, table-driven: 5000 bytes per plane, the
\* byte_to_base_x_ / byte_to_base_y_ entries negative from byte 4096 on
WideConfigs ==
    { MkConfig("packed", d[1], d[2], FALSE, 4, FALSE, TRUE, TRUE, 10000) :
        d \in {<<32770, 1>>, <<1, 32770>>} } \cup
    { MkConfig("planar_fast", 40000, 1, FALSE, 4, FALSE, TRUE, TRUE, 2000),
      MkConfig("planar_fast", 1, 40000, FALSE, 4, FALSE, TRUE, FALSE, 2000) }

\* sparse frames: one non-zero byte among the last MaxTail bytes
WideBuffers ==
    [cfg \in WideConfigs |->
        { [i \in 1..frame_size_of(cfg) |-> IF i = k THEN v ELSE 0] :
            k \in (frame_size_of(cfg) - MaxTail + 1)..frame_size_of(cfg),
            v \in DecodeBytes \ {0} }]

InitWide ==
    /\ config \in WideConfigs
    /\ InitTcp
    /\ InitDec
    /\ InitDrv
    /\ InitUdp
    /\ InitEnc
    /\ InitAcc

NextWide ==
    \E buf \in WideBuffers[config], fn \in 0..MaxFrameNumber :
        Unpack(buf, fn, <<>>) /\ UNCHANGED <<drvVars, accVars, other_receiver>>

SpecWide == InitWide /\ [][NextWide]_vars

\* ---- the sender of 2-bit packed frames (README, FPGA Implementation
\* Reference) and the unpacker behind it

\* layouts of the round trip: 2x2 (1 byte), 3x2 (2 bytes, two padding slots)
\* and 3x3 (3 bytes, three padding slots)
RoundTripConfigs ==
    { MkConfig("packed", d[1], d[2], FALSE, 4, FALSE, TRUE, TRUE, 10000) :
        d \in {<<2, 2>>, <<3, 2>>, <<3, 3>>} }

\* set_pixel(frame, x, y, polarity): frame[byte_index] =
\* (frame[byte_index] & ~(0b11 << shift)) | (v << shift)
set_pixel(cfg, frame, x, y, polarity) ==
    LET pixel_index == y * cfg.width + x
        byte_index == pixel_index \div 4
        shift == (3 - (pixel_index % 4)) * 2
        v == IF polarity = 0 THEN 2 ELSE 1
        old == frame[byte_index + 1]
        cleared == old - ((old \div (2 ^ shift)) % 4) * (2 ^ shift)
    IN  [frame EXCEPT ![byte_index + 1] = cleared + v * (2 ^ shift)]

\* the sender starts a frame: frame_size() zero bytes
NewFrame ==
    /\ last.op = "init"
    /\ frame_buffer' = Vec([i \in 1..getFrameSize |-> 0])
    /\ last' = Call("new_frame", "none", "none")
    /\ UNCHANGED <<config, server_socket_, client_socket_, connected_,
                   total_bytes_received_, total_frames_received_, pc, total_received,
                   header_frame_size, frame_size, open_fds, base, stream, rpos,
                   peer_open, entry, decVars, drvVars, accVars, other_receiver, udpVars, encVars>>

\* the sender writes the event (x, y, polarity) of a pixel it has not written
\* in this frame
SetPixel(x, y, polarity) ==
    /\ last.op \in {"new_frame", "set_pixel"}
    /\ \A e \in set_pixels : ~(e.x = x /\ e.y = y)
    /\ frame_buffer' = Vec(set_pixel(config, Bytes(frame_buffer), x, y, polarity))
    /\ set_pixels' = set_pixels \cup {[x |-> x, y |-> y, polarity |-> (polarity = 1)]}
    /\ last' = Call("set_pixel", "none", "none")
    /\ UNCHANGED <<config, server_socket_, client_socket_, connected_,
                   total_bytes_received_, total_frames_received_, pc, total_received,
                   header_frame_size, frame_size, open_fds, base, stream, rpos,
                   peer_open, entry, decVars, drvVars, accVars, other_receiver, udpVars>>

\* the frame is decoded
UnpackFrame(fn) ==
    /\ last.op \in {"new_frame", "set_pixel"}
    /\ Unpack(Bytes(frame_buffer), fn, <<>>)
    /\ UNCHANGED <<drvVars, accVars, other_receiver>>

InitRoundTrip ==
    /\ config \in RoundTripConfigs
    /\ InitTcp
    /\ InitDec
    /\ InitDrv
    /\ InitUdp
    /\ InitEnc
    /\ InitAcc

NextRoundTrip ==
    \/ NewFrame
    \/ \E x \in 0..(config.width - 1), y \in 0..(config.height - 1), polarity \in {0, 1} :
           SetPixel(x, y, polarity)
    \/ \E fn \in 0..MaxFrameNumber : UnpackFrame(fn)

SpecRoundTrip == InitRoundTrip /\ [][NextRoundTrip]_vars

----------------------------------------------------------------------------
\* the receiver under an arbitrary caller
Next ==
    \/ \E outcome \in ListenOutcomes : Connect(outcome) /\ UNCHANGED <<drvVars, accVars, other_receiver>>
    \/ \E outcome \in AcceptOutcomes : Accept(outcome) /\ UNCHANGED <<drvVars, accVars, other_receiver>>
    \/ MoveFrom /\ UNCHANGED <<drvVars, accVars>>
    \/ \E src \in Sources : MoveAssign(src) /\ UNCHANGED <<drvVars, accVars>>
    \/ \E src \in Sources : MoveConstruct(src) /\ UNCHANGED <<drvVars, accVars>>
    \/ OtherDestroyed /\ UNCHANGED <<drvVars, accVars>>
    \/ Disconnect /\ UNCHANGED <<drvVars, accVars, other_receiver>>
    \/ ReceiveFrame /\ UNCHANGED <<drvVars, accVars, other_receiver>>
    \/ ResizeBuffer /\ UNCHANGED <<drvVars, accVars, other_receiver>>
    \/ \E k \in 1..MaxStream : RecvData(k) /\ UNCHANGED <<drvVars, accVars, other_receiver>>
    \/ \E how \in {"eof", "error"} : RecvFail(how) /\ UNCHANGED <<drvVars, accVars, other_receiver>>
    \/ \E f \in PeerFrames[config] : PeerSend(f) /\ UNCHANGED <<drvVars, accVars, other_receiver>>
    \/ \E f \in PeerTruncated[config] : PeerSendTruncated(f) /\ UNCHANGED <<drvVars, accVars, other_receiver>>
    \/ PeerClose /\ UNCHANGED <<drvVars, accVars, other_receiver>>

Spec == Init /\ [][Next]_vars

\* the same receiver with the history of the frame lengths kept: a connect()
\* that establishes a connection forgets it; a receiveFrame that returns true
\* adds the length of the frame it returned; a receiver that is moved from
\* keeps it with its counters, and a receiver that src is moved into has the
\* history of src with the counters of src
TrackShortest ==
    shortest_frame' =
        IF ~connected_ /\ connected_' THEN <<>>
        ELSE IF last' # last /\ last' = Call("receiveFrame", "complete", "true")
        THEN IF shortest_frame = <<>> THEN << frame_buffer'.size >>
             ELSE << Min(shortest_frame[1], frame_buffer'.size) >>
        ELSE shortest_frame

NextCounted ==
    \/ \E outcome \in ListenOutcomes :
           Connect(outcome) /\ UNCHANGED <<drvVars, batches_at_cancel, other_receiver>> /\ TrackShortest
    \/ \E outcome \in AcceptOutcomes :
           Accept(outcome) /\ UNCHANGED <<drvVars, batches_at_cancel, other_receiver>> /\ TrackShortest
    \/ MoveFrom /\ UNCHANGED <<drvVars, accVars>>
    \/ \E src \in Sources :
           MoveAssign(src) /\ UNCHANGED <<drvVars, batches_at_cancel>> /\ shortest_frame' = src.shortest
    \/ \E src \in Sources :
           MoveConstruct(src) /\ UNCHANGED <<drvVars, batches_at_cancel>> /\ shortest_frame' = src.shortest
    \/ OtherDestroyed /\ UNCHANGED <<drvVars, accVars>>
    \/ Disconnect /\ UNCHANGED <<drvVars, batches_at_cancel, other_receiver>> /\ TrackShortest
    \/ ReceiveFrame /\ UNCHANGED <<drvVars, batches_at_cancel, other_receiver>> /\ TrackShortest
    \/ ResizeBuffer /\ UNCHANGED <<drvVars, batches_at_cancel, other_receiver>> /\ TrackShortest
    \/ \E k \in 1..MaxStream : RecvData(k) /\ UNCHANGED <<drvVars, batches_at_cancel, other_receiver>> /\ TrackShortest
    \/ \E how \in {"eof", "error"} : RecvFail(how) /\ UNCHANGED <<drvVars, batches_at_cancel, other_receiver>> /\ TrackShortest
    \/ \E f \in PeerFrames[config] : PeerSend(f) /\ UNCHANGED <<drvVars, batches_at_cancel, other_receiver>> /\ TrackShortest
    \/ \E f \in PeerTruncated[config] :
           PeerSendTruncated(f) /\ UNCHANGED <<drvVars, batches_at_cancel, other_receiver>> /\ TrackShortest
    \/ PeerClose /\ UNCHANGED <<drvVars, batches_at_cancel, other_receiver>> /\ TrackShortest

SpecCounted == Init /\ [][NextCounted]_vars

----------------------------------------------------------------------------
\* main (src/src/main.cpp): the receiver and the unpacker under the main loop
\*
\* dpc: "start"      the components are constructed
\*      "aborted"    a constructor threw: std::terminate
\*      "connect"    receiver.connect() before the loop
\*      "head"       while (running)
\*      "receive"    about to call receiver.receiveFrame(frame_buffer)
\*      "receiving"  inside receiveFrame
\*      "failed"     receiveFrame returned false: if (running)
\*      "disconnect" receiver.disconnect() of the reconnect branch
\*      "reconnect"  receiver.connect() of the reconnect branch (after the sleep)
\*      "unpack"     unpacker.unpack(frame_buffer, frame_count, events)
\*      "write"      if (num_events > 0) writer.writeEvents(events); frame_count++
\*      "cleanup"    after the loop: receiver.disconnect()
\*      "exit"       return: ~TcpReceiver runs disconnect()
\*      "done"

\* layouts with a non-positive width or height: Config::width and
\* Config::height are plain ints that nothing checks. Their frame_size() is
\* 0, 0, 0 (-3 / 4) and -1 (-5 / 4). They are run with a 1-byte header, so
\* that every frame main counts is one the peer has announced (without a
\* header a layout of frame_size() 0 has receiveFrame return true without a
\* recv, and main counts frames without end and without any input)
NonPositiveConfigs ==
    { MkConfig("packed", d[1], d[2], TRUE, 1, FALSE, TRUE, TRUE, 10000) :
        d \in {<<0, 2>>, <<3, 0>>, <<-3, 2>>, <<-4, 2>>} }

\* payload byte values a peer of main sends: 0 (no event) and 1 (slot 3 of the
\* byte holds 01)
MainByteVals == {0, 1}

\* one complete frame as a peer of main puts it on the wire: the payload bytes
\* of one frame are all the same
DriverFramesFor(cfg) ==
    IF cfg.has_header
    THEN UNION { { LEBytes(h, cfg.header_size) \o [i \in 1..PeerPayloadLen(cfg, h) |-> v] :
                     v \in MainByteVals } :
                 h \in HeaderValues }
    ELSE { [i \in 1..frame_size_of(cfg) |-> v] : v \in MainByteVals }

\* the frames a peer of main sends: those whose payload the model can hold
DriverFrames ==
    [cfg \in TcpConfigs \cup NonPositiveConfigs |->
        { f \in DriverFramesFor(cfg) :
            cfg.has_header =>
                ChooseFrameSize(U32(PutBytes(<<0, 0, 0, 0>>, 0, SubSeq(f, 1, cfg.header_size))),
                                frame_size_of(cfg)) <= MaxBuf }]

\* the peer of main has room for f on this connection, and a peer of main
\* stops sending when main has MaxFrames frames counted or on their way.
\* shortest: the bytes of the shortest frame a peer of main sends (the header
\* and one payload byte, the header alone on a layout of frame_size() 0, or
\* frame_size() bytes without a header); underway:
\* the bytes main has read of the frame receiveFrame is busy with; ahead: the
\* most frames main can still come to count once f is sent as well (the one
\* it is unpacking or writing, and those the bytes it has read, the bytes in
\* flight and f can make up)
MainPeerCanSend(f) ==
    LET hdr == IF config.has_header THEN config.header_size ELSE 0
        shortest == IF ~config.has_header THEN frame_size_of(config)
                    ELSE IF frame_size_of(config) > 0 THEN hdr + 1
                    ELSE hdr
        underway == IF pc = "header" THEN total_received
                    ELSE IF pc = "resize" THEN hdr
                    ELSE IF pc = "payload" THEN hdr + total_received
                    ELSE 0
        ahead == (IF dpc \in {"unpack", "write"} THEN 1 ELSE 0)
                 + (underway + InFlight + Len(f)) \div shortest
    IN  /\ base + Len(stream) + Len(f) <= MaxMainStream
        /\ shortest > 0
        /\ frame_count + ahead <= MaxFrames

DriverTruncated ==
    [cfg \in TcpConfigs \cup NonPositiveConfigs |->
        UNION { { SubSeq(f, 1, n) : n \in 1..(Len(f) - 1) } : f \in DriverFrames[cfg] }]

\* the value a call that has just returned gave back
Returned(ret) == last'.ret = ret

\* converter::TcpReceiver receiver(config); converter::FrameUnpacker
\* unpacker(config): the unpacker's constructor resizes its table to
\* frame_size() entries, and vector::resize of a negative int (a huge size_t)
\* throws std::length_error, which nothing catches
MainConstruct ==
    /\ dpc = "start"
    /\ dpc' = IF frame_size_of(config) < 0 THEN "aborted" ELSE "connect"
    /\ UNCHANGED <<config, tcpVars, last, entry, decVars, udpVars, encVars,
                   running, frame_count, sink, recovering>>

\* if (!receiver.connect()) return 1; main stays in the call while connect()
\* waits in accept()
MainConnect(outcome) ==
    /\ dpc = "connect"
    /\ Connect(outcome) \/ Accept(outcome)
    /\ dpc' = IF Returned("true") THEN "head"
              ELSE IF Returned("false") THEN "exit" ELSE "connect"
    /\ UNCHANGED <<running, frame_count, sink, recovering>>

\* while (running)
MainLoopHeadIgnoresFlag ==
    /\ dpc = "head"
    /\ dpc' = "receive"
    /\ UNCHANGED <<config, tcpVars, last, entry, decVars, udpVars, encVars,
                   running, frame_count, sink, recovering>>
MainLoopHead ==
    /\ dpc = "head"
    /\ dpc' = IF running THEN "receive" ELSE "cleanup"
    /\ UNCHANGED <<config, tcpVars, last, entry, decVars, udpVars, encVars,
                   running, frame_count, sink, recovering>>

\* receiver.receiveFrame(frame_buffer) is called
MainReceive ==
    /\ dpc = "receive"
    /\ ReceiveFrame
    /\ dpc' = IF Returned("false") THEN "failed" ELSE "receiving"
    /\ recovering' = FALSE
    /\ UNCHANGED <<running, frame_count, sink>>

\* receiveFrame goes on: the buffer is resized / recv returns data
MainResizeBuffer ==
    /\ dpc = "receiving"
    /\ ResizeBuffer
    /\ dpc' = IF Returned("true") THEN "unpack" ELSE "receiving"
    /\ UNCHANGED <<running, frame_count, sink, recovering>>

MainRecvData(k) ==
    /\ dpc = "receiving"
    /\ RecvData(k)
    /\ dpc' = IF Returned("true") THEN "unpack" ELSE "receiving"
    /\ UNCHANGED <<running, frame_count, sink, recovering>>

\* recv fails inside receiveFrame, which returns false
MainRecvFail(how) ==
    /\ dpc = "receiving"
    /\ RecvFail(how)
    /\ dpc' = "failed"
    /\ UNCHANGED <<running, frame_count, sink, recovering>>

\* if (running) { ...reconnect... } continue;
MainReceiveFailed ==
    /\ dpc = "failed"
    /\ dpc' = IF running THEN "disconnect" ELSE "head"
    /\ recovering' = running
    /\ UNCHANGED <<config, tcpVars, last, entry, decVars, udpVars, encVars,
                   running, frame_count, sink>>

\* receiver.disconnect(); sleep_for(1 s)
MainDisconnect ==
    /\ dpc = "disconnect"
    /\ Disconnect
    /\ dpc' = "reconnect"
    /\ UNCHANGED <<running, frame_count, sink, recovering>>

\* if (!receiver.connect()) break; and then continue; main stays in the call
\* while connect() waits in accept()
MainReconnectResetsFrameCount(outcome) ==
    /\ dpc = "reconnect"
    /\ Connect(outcome) \/ Accept(outcome)
    /\ dpc' = IF Returned("true") THEN "head"
              ELSE IF Returned("false") THEN "cleanup" ELSE "reconnect"
    /\ frame_count' = IF Returned("true") THEN 0 ELSE frame_count
    /\ UNCHANGED <<running, sink, recovering>>
MainReconnectRetries(outcome) ==
    /\ dpc = "reconnect"
    /\ Connect(outcome) \/ Accept(outcome)
    /\ dpc' = IF Returned("true") THEN "head" ELSE "reconnect"
    /\ UNCHANGED <<running, frame_count, sink, recovering>>
MainReconnect(outcome) ==
    /\ dpc = "reconnect"
    /\ Connect(outcome) \/ Accept(outcome)
    /\ dpc' = IF Returned("true") THEN "head"
              ELSE IF Returned("false") THEN "cleanup" ELSE "reconnect"
    /\ UNCHANGED <<running, frame_count, sink, recovering>>

\* size_t num_events = unpacker.unpack(frame_buffer, frame_count, events)
MainUnpackNumbersByConnection ==
    /\ dpc = "unpack"
    /\ \E buf \in { Bytes(frame_buffer) } :
           \E behind \in Behind(config, Len(buf)) :
               Unpack(buf, total_frames_received_ - 1, behind)
    /\ dpc' = "write"
    /\ UNCHANGED <<running, frame_count, sink, recovering>>
MainUnpack ==
    /\ dpc = "unpack"
    /\ \E buf \in { Bytes(frame_buffer) } :
           \E behind \in Behind(config, Len(buf)) : Unpack(buf, frame_count, behind)
    /\ dpc' = "write"
    /\ UNCHANGED <<running, frame_count, sink, recovering>>

\* if (num_events > 0) writer.writeEvents(events); frame_count++
MainWriteReconnectsOnEmpty ==
    /\ dpc = "write"
    /\ sink' = IF num_events > 0 THEN Append(sink, events) ELSE sink
    /\ frame_count' = frame_count + 1
    /\ dpc' = IF num_events > 0 THEN "head" ELSE "disconnect"
    /\ UNCHANGED <<config, tcpVars, last, entry, decVars, udpVars, encVars, running, recovering>>
MainWriteAlways ==
    /\ dpc = "write"
    /\ sink' = Append(sink, events)
    /\ frame_count' = frame_count + 1
    /\ dpc' = "head"
    /\ UNCHANGED <<config, tcpVars, last, entry, decVars, udpVars, encVars, running, recovering>>
MainWrite ==
    /\ dpc = "write"
    /\ sink' = IF num_events > 0 THEN Append(sink, events) ELSE sink
    /\ frame_count' = frame_count + 1
    /\ dpc' = "head"
    /\ UNCHANGED <<config, tcpVars, last, entry, decVars, udpVars, encVars, running, recovering>>

\* after the loop: receiver.disconnect()
MainCleanupSkipped ==
    /\ dpc = "cleanup"
    /\ dpc' = "done"
    /\ UNCHANGED <<config, tcpVars, last, entry, decVars, udpVars, encVars,
                   running, frame_count, sink, recovering>>
MainCleanup ==
    /\ dpc = "cleanup"
    /\ Disconnect
    /\ dpc' = "exit"
    /\ UNCHANGED <<running, frame_count, sink, recovering>>

\* return from main: ~TcpReceiver calls disconnect()
MainExit ==
    /\ dpc = "exit"
    /\ Disconnect
    /\ dpc' = "done"
    /\ UNCHANGED <<running, frame_count, sink, recovering>>

\* signalHandler: running = false (SIGINT / SIGTERM, at any moment)
SignalHandler ==
    /\ dpc \notin {"done", "aborted"}
    /\ running
    /\ running' = FALSE
    /\ UNCHANGED <<config, tcpVars, last, entry, decVars, udpVars, encVars,
                   dpc, frame_count, sink, recovering>>

\* the steps of main itself; a blocked recv returns when data, the end of the
\* stream or an error arrives
MainStep ==
    \/ MainConstruct
    \/ \E outcome \in ConnectOutcomes : MainConnect(outcome)
    \/ MainLoopHead
    \/ MainReceive
    \/ MainResizeBuffer
    \/ \E k \in 1..MaxStream : MainRecvData(k)
    \/ \E how \in {"eof", "error"} : MainRecvFail(how)
    \/ MainReceiveFailed
    \/ MainDisconnect
    \/ \E outcome \in ConnectOutcomes : MainReconnect(outcome)
    \/ MainUnpack
    \/ MainWrite
    \/ MainCleanup
    \/ MainExit

NextMain ==
    \/ MainStep /\ UNCHANGED <<accVars, other_receiver>>
    \/ SignalHandler /\ UNCHANGED <<accVars, other_receiver>>
    \/ /\ PeerReady
       /\ \E f \in DriverFrames[config] :
              MainPeerCanSend(f) /\ PeerSend(f) /\ UNCHANGED <<drvVars, accVars, other_receiver>>
    \/ /\ PeerReady
       /\ \E f \in DriverTruncated[config] :
              MainPeerCanSend(f) /\ PeerSendTruncated(f) /\ UNCHANGED <<drvVars, accVars, other_receiver>>
    \/ PeerClose /\ UNCHANGED <<drvVars, accVars, other_receiver>>

\* main is run without a header and with a 1-byte header
MainConfigs == { cfg \in TcpConfigs : cfg.has_header => cfg.header_size = 1 }

InitMain ==
    /\ config \in MainConfigs
    /\ InitTcp
    /\ InitDec
    /\ InitDrv
    /\ InitUdp
    /\ InitEnc
    /\ InitAcc

SpecMain == InitMain /\ [][NextMain]_vars

\* main keeps running: every blocking call it is in returns sooner or later
SpecMainFair == SpecMain /\ WF_vars(MainStep /\ UNCHANGED <<accVars, other_receiver>>)

\* main with the number of batches written before the signal kept
NextCancel ==
    \/ MainStep /\ UNCHANGED <<accVars, other_receiver>>
    \/ /\ SignalHandler
       /\ batches_at_cancel' = << Len(sink) >>
       /\ UNCHANGED <<shortest_frame, other_receiver>>
    \/ /\ PeerReady
       /\ \E f \in DriverFrames[config] :
              MainPeerCanSend(f) /\ PeerSend(f) /\ UNCHANGED <<drvVars, accVars, other_receiver>>
    \/ /\ PeerReady
       /\ \E f \in DriverTruncated[config] :
              MainPeerCanSend(f) /\ PeerSendTruncated(f) /\ UNCHANGED <<drvVars, accVars, other_receiver>>
    \/ PeerClose /\ UNCHANGED <<drvVars, accVars, other_receiver>>

SpecCancel == InitMain /\ [][NextCancel]_vars

\* main started with any Config, the non-positive resolutions included
InitStartup ==
    /\ config \in MainConfigs \cup NonPositiveConfigs
    /\ InitTcp
    /\ InitDec
    /\ InitDrv
    /\ InitUdp
    /\ InitEnc
    /\ InitAcc

SpecStartup == InitStartup /\ [][NextMain]_vars

----------------------------------------------------------------------------
\* The datagram receiver (the UdpReceiver alternative of main's ReceiverVariant):
\* connect() binds, receiveFrame accumulates datagrams into the carry-over
\* buffer until a frame's worth of bytes is there, hands out exactly one frame
\* and keeps the rest. It has no header. The members connected_,
\* total_bytes_received_ and total_frames_received_ are the receiver's, and
\* frame_buffer is the caller's vector, as for the stream receiver.

\* layouts the datagram receiver is exercised with: 2-bit packed 3x2 (2 bytes)
\* and 3x3 (3 bytes)
UdpConfigs ==
    { MkConfig("packed", d[1], d[2], FALSE, 4, FALSE, TRUE, TRUE, 10000) :
        d \in {<<3, 2>>, <<3, 3>>} }

\* the datagrams a sender sends: 1..MaxDatagram bytes
Datagrams == UNION { [1..n -> ByteVals] : n \in 1..MaxDatagram }

\* the payloads of the datagrams `ds`, concatenated
RECURSIVE Concatenated(_)
Concatenated(ds) ==
    IF ds = <<>> THEN <<>> ELSE Head(ds) \o Concatenated(Tail(ds))

\* connect(): bind the local endpoint
UdpConnect(outcome) ==
    /\ pc = "idle"
    /\ ~connected_
    /\ connected_' = (outcome = "ok")
    /\ carry_over' = <<>>
    /\ datagrams' = <<>>
    /\ total_bytes_received_' = IF outcome = "ok" THEN 0 ELSE total_bytes_received_
    /\ total_frames_received_' = IF outcome = "ok" THEN 0 ELSE total_frames_received_
    /\ last' = Call("connect", outcome, IF outcome = "ok" THEN "true" ELSE "false")
    /\ entry' = Snapshot(frame_buffer, Self)
    /\ UNCHANGED <<config, server_socket_, client_socket_, pc, total_received,
                   header_frame_size, frame_size, frame_buffer, open_fds, base,
                   stream, rpos, peer_open, decVars, drvVars, accVars, other_receiver, encVars>>

\* receiveFrame(frame_buffer) is called
UdpReceiveFrame ==
    /\ pc = "idle"
    /\ entry' = Snapshot(frame_buffer, Self)
    /\ IF ~connected_
       THEN /\ last' = Call("receiveFrame", "not_connected", "false")
            /\ UNCHANGED pc
       ELSE /\ last' = Call("receiveFrame", "running", "pending")
            /\ pc' = "accumulate"
    /\ UNCHANGED <<config, server_socket_, client_socket_, connected_,
                   total_bytes_received_, total_frames_received_, total_received,
                   header_frame_size, frame_size, frame_buffer, open_fds, base,
                   stream, rpos, peer_open, decVars, drvVars, accVars, other_receiver, udpVars, encVars>>

\* less than a frame is buffered: the next datagram is received and appended
UdpRecvDatagram(d) ==
    /\ pc = "accumulate"
    /\ Len(carry_over) < getFrameSize
    /\ Len(Concatenated(datagrams)) + Len(d) <= MaxUdpBytes
    /\ carry_over' = carry_over \o d
    /\ datagrams' = Append(datagrams, d)
    /\ total_bytes_received_' = total_bytes_received_ + Len(d)
    /\ UNCHANGED <<config, server_socket_, client_socket_, connected_,
                   total_frames_received_, pc, total_received, header_frame_size,
                   frame_size, frame_buffer, open_fds, base, stream, rpos,
                   peer_open, last, entry, decVars, drvVars, accVars, other_receiver, encVars>>

\* the receive fails: receiveFrame returns false, the source is disconnected
UdpRecvFail ==
    /\ pc = "accumulate"
    /\ Len(carry_over) < getFrameSize
    /\ connected_' = FALSE
    /\ last' = Call("receiveFrame", "error", "false")
    /\ pc' = "idle"
    /\ UNCHANGED <<config, server_socket_, client_socket_, total_bytes_received_,
                   total_frames_received_, total_received, header_frame_size,
                   frame_size, frame_buffer, open_fds, base, stream, rpos,
                   peer_open, entry, decVars, drvVars, accVars, other_receiver, udpVars, encVars>>

\* a frame's worth of bytes is buffered: exactly one frame is sliced off into
\* the caller's buffer, the remainder is kept for the next call
UdpSliceDropsRemainder ==
    /\ pc = "accumulate"
    /\ Len(carry_over) >= getFrameSize
    /\ frame_buffer' = Vec(SubSeq(carry_over, 1, getFrameSize))
    /\ carry_over' = <<>>
    /\ total_frames_received_' = total_frames_received_ + 1
    /\ last' = Call("receiveFrame", "complete", "true")
    /\ pc' = "idle"
    /\ UNCHANGED <<config, server_socket_, client_socket_, connected_,
                   total_bytes_received_, total_received, header_frame_size,
                   frame_size, open_fds, base, stream, rpos, peer_open, entry,
                   decVars, drvVars, accVars, other_receiver, encVars, datagrams>>
UdpSlice ==
    /\ pc = "accumulate"
    /\ Len(carry_over) >= getFrameSize
    /\ frame_buffer' = Vec(SubSeq(carry_over, 1, getFrameSize))
    /\ carry_over' = SubSeq(carry_over, getFrameSize + 1, Len(carry_over))
    /\ total_frames_received_' = total_frames_received_ + 1
    /\ last' = Call("receiveFrame", "complete", "true")
    /\ pc' = "idle"
    /\ UNCHANGED <<config, server_socket_, client_socket_, connected_,
                   total_bytes_received_, total_received, header_frame_size,
                   frame_size, open_fds, base, stream, rpos, peer_open, entry,
                   decVars, drvVars, accVars, other_receiver, encVars, datagrams>>

InitUdpReceiver ==
    /\ config \in UdpConfigs
    /\ InitTcp
    /\ InitDec
    /\ InitDrv
    /\ InitUdp
    /\ InitEnc
    /\ InitAcc

NextUdp ==
    \/ \E outcome \in {"bind_fail", "ok"} : UdpConnect(outcome)
    \/ UdpReceiveFrame
    \/ \E d \in Datagrams : UdpRecvDatagram(d)
    \/ UdpRecvFail
    \/ UdpSlice

SpecUdp == InitUdpReceiver /\ [][NextUdp]_vars

----------------------------------------------------------------------------
\* Properties of TcpReceiver (checked under Spec)

\* the header value receiveFrame has read
HeaderValue == U32(header_frame_size)

\* a receiveFrame call has just returned true / false
ReceiveSucceeded == last.op = "receiveFrame" /\ last.ret = "true"
ReceiveFailed == last.op = "receiveFrame" /\ last.ret = "false"

\* the payload bytes recv has delivered to the call in progress (or just
\* finished): they follow the header bytes, if any, in `stream`
PayloadStart == IF config.has_header THEN config.header_size ELSE 0

\* C1: without header, the k-th successful receiveFrame (k = 0, 1, ...) returns
\* exactly frameByteSize bytes, equal to bytes [k*F, (k+1)*F) of the peer's
\* stream whatever the recv chunks were; while a frame is being assembled the
\* bytes stored so far are the bytes delivered so far, in order, and no byte
\* beyond the frame has been taken from the socket
StreamReassembly ==
    ~config.has_header =>
        /\ ReceiveSucceeded =>
              /\ frame_buffer.size = getFrameSize
              /\ base = (total_frames_received_ - 1) * getFrameSize
              /\ rpos = getFrameSize
              /\ frame_buffer = Vec(SubSeq(stream, 1, getFrameSize))
        /\ pc = "payload" =>
              /\ rpos = total_received
              /\ rpos < getFrameSize
              /\ base = total_frames_received_ * getFrameSize
              /\ Prefix(frame_buffer, total_received) = SubSeq(stream, 1, rpos)

\* C1 witness: the second frame of a connection has been returned, and the two
\* bytes of the frame differ
SecondFrameReassembled ==
    /\ ~config.has_header
    /\ ReceiveSucceeded
    /\ total_frames_received_ = 2
    /\ frame_buffer = Vec(<<2, 1>>)

\* C2: a recv that returns 0 or an error, in the header or in the payload read
\* and after any number of partial reads, makes receiveFrame return false with
\* connected_ cleared and totalFramesReceived as it was when the call began
RecvFailureAborts ==
    (last.op = "receiveFrame" /\ last.path \in {"eof", "error"}) =>
        /\ last.ret = "false"
        /\ pc = "idle"
        /\ ~connected_
        /\ total_frames_received_ = entry.total_frames

\* C2 witness: end-of-stream in the header read after part of the header was read
EofInsideHeader ==
    /\ last = CallAt("receiveFrame", "eof", "false", "header")
    /\ total_received >= 1
    /\ total_frames_received_ >= 1

\* C3 as stated: after a failed receiveFrame the caller's buffer is what it was
\* before the call
FailedReceiveLeavesBuffer ==
    ReceiveFailed => frame_buffer = entry.frame_buffer

\* the last position at which the buffer, the bytes read in this call or the
\* buffer as it was before the call can hold a byte that is not 0
LastKnown ==
    LET a == Len(frame_buffer.head)
        b == IF total_received > a THEN total_received ELSE a
    IN  IF Len(entry.frame_buffer.head) > b THEN Len(entry.frame_buffer.head) ELSE b

\* C3 amended: a failed receiveFrame leaves the buffer untouched only if it
\* failed before the payload read began; a failure during the payload read
\* leaves the buffer resized to the frame length of the call, its first bytes
\* holding the payload bytes read so far and the rest what resize left there
FailedReceiveBuffer ==
    ReceiveFailed =>
        IF last.at = "payload"
        THEN /\ frame_buffer.size = frame_size
             \* element by element up to the last one that is not 0 on either
             \* side; behind it both sides are 0
             /\ \A i \in 1..Min(frame_size, LastKnown) :
                   At(frame_buffer, i) =
                      IF i <= total_received
                      THEN stream[PayloadStart + i]
                      ELSE IF i <= entry.frame_buffer.size
                           THEN At(entry.frame_buffer, i)
                           ELSE 0
        ELSE frame_buffer = entry.frame_buffer

\* C3 witness: a receive failed in the payload read after one payload byte had
\* been stored over a buffer that held an earlier frame
FailedAfterPartialPayload ==
    /\ ReceiveFailed
    /\ last.at = "payload"
    /\ total_received = 1
    /\ frame_buffer # entry.frame_buffer
    /\ entry.frame_buffer.size > 0

\* what the header read of the current call has settled: frame_size is chosen
HeaderSettled ==
    /\ config.has_header
    /\ \/ pc \in {"resize", "payload"}
       \/ ReceiveSucceeded
       \/ (ReceiveFailed /\ last.at = "payload")

\* C4 as stated: the header value h is used for every 0 < h <= 100,000,000
HeaderFallbackInclusive ==
    HeaderSettled =>
        frame_size = IF HeaderValue = 0 \/ HeaderValue > SANITY_LIMIT
                     THEN getFrameSize ELSE HeaderValue

\* C4 amended: the nominal size is used when h = 0 or h >= 100,000,000, and h
\* itself for 0 < h < 100,000,000; a successful call has read exactly that
\* many payload bytes after the header; every call starts again from the
\* nominal size
HeaderFallback ==
    HeaderSettled =>
        /\ HeaderValue = U32(Resize(SubSeq(stream, 1, config.header_size), HEADER_VAR_BYTES))
        /\ frame_size = IF HeaderValue = 0 \/ HeaderValue >= SANITY_LIMIT
                        THEN getFrameSize ELSE HeaderValue
        /\ ReceiveSucceeded =>
              /\ frame_buffer.size = frame_size
              /\ rpos = config.header_size + frame_size
              /\ frame_buffer = Vec(SubSeq(stream, config.header_size + 1, rpos))

\* C4 witness: a call that read the header 100,000,000 returned a frame of the
\* nominal size, right after a call whose header 1 gave a 1-byte frame
FallbackAtLimitAfterShortFrame ==
    /\ config.has_header
    /\ ReceiveSucceeded
    /\ HeaderValue = SANITY_LIMIT
    /\ frame_buffer.size = getFrameSize
    /\ entry.frame_buffer.size = 1

\* the members of the receiver are what they were when the latest call began
MembersAsAtEntry ==
    /\ total_bytes_received_ = entry.total_bytes
    /\ total_frames_received_ = entry.total_frames

ObjVars == <<server_socket_, client_socket_, connected_, total_bytes_received_,
             total_frames_received_, open_fds>>

\* a step leaves the receiver as it is: its members keep their values, the
\* descriptors it holds stay open and none is opened (another receiver may
\* close its own in the same step)
ReceiverKept ==
    /\ UNCHANGED <<server_socket_, client_socket_, connected_,
                   total_bytes_received_, total_frames_received_>>
    /\ open_fds' \subseteq open_fds
    /\ Held(Self) \cap open_fds' = Held(Self) \cap open_fds

\* C5: connect() on a connected receiver returns true and changes nothing:
\* sockets, connected flag, counters and the descriptor table stay (no
\* socket/bind/listen/accept), and so does the connection's stream
ConnectIdempotent ==
    [][ (connected_ /\ \E outcome \in ConnectOutcomes : Connect(outcome)) =>
           /\ last' = Call("connect", "already", "true")
           /\ UNCHANGED ObjVars
           /\ UNCHANGED <<base, stream, rpos, peer_open, frame_buffer>> ]_vars

\* C5 witness: connect() was called on a receiver that had received a frame
ConnectWhileConnected ==
    /\ last = Call("connect", "already", "true")
    /\ connected_
    /\ total_frames_received_ = 1
    /\ total_bytes_received_ > 0

\* C6: from every reachable state disconnect() leaves the receiver not
\* connected with both socket handles invalid and closed (the only
\* descriptors left open are those another receiver holds), and a second
\* disconnect() changes nothing
DisconnectForces ==
    /\ LET d == disconnect(Self)
       IN  /\ ~d.connected_
           /\ d.client_socket_ = INVALID_SOCK
           /\ d.server_socket_ = INVALID_SOCK
           /\ d.open_fds = Foreign(Self)
           /\ d.open_fds \cap Held(Self) = {}
           /\ disconnect(d) = d
    /\ last.op = "disconnect" =>
           /\ ~connected_
           /\ client_socket_ = INVALID_SOCK
           /\ server_socket_ = INVALID_SOCK
           /\ open_fds \subseteq entry.foreign
           /\ MembersAsAtEntry

\* C6 witness: disconnect() was called after a receive had failed, when the
\* sockets were still open
DisconnectAfterFailedReceive ==
    /\ last = Call("disconnect", "from_failed_receive", "none")
    /\ open_fds = {}
    /\ entry.total_bytes > 0

\* C7: a connect() in which socket, bind, listen or accept fails returns false
\* and leaves the receiver not connected, holding no socket, the descriptor
\* opened during the attempt closed (the only descriptors left open are those
\* another receiver held when the call began), and the counters as they were
ConnectFailureCleans ==
    (last.op = "connect" /\ last.path \notin {"already", "listening", "ok"}) =>
        /\ last.ret = "false"
        /\ ~connected_
        /\ server_socket_ = INVALID_SOCK
        /\ client_socket_ = INVALID_SOCK
        /\ open_fds \subseteq entry.foreign
        /\ MembersAsAtEntry

\* C7 witness: accept failed in a reconnect attempt made after frames had been
\* received
AcceptFailedOnReconnect ==
    /\ last = Call("connect", "accept_fail", "false")
    /\ total_frames_received_ >= 1

\* a step in which the caller's other receiver ends (no call on the receiver)
OtherEnds == other_receiver # <<>> /\ other_receiver' = <<>>

MemberVars == <<server_socket_, client_socket_, connected_, total_bytes_received_,
                total_frames_received_>>

\* a step of connect, disconnect or receiveFrame, of the peer, the move of
\* this receiver into another one or the end of another receiver: any step
\* but the one that moves another receiver into this one (the move makes
\* the members those of the other receiver)
SameReceiver ==
    ~(last'.op \in {"move_assign", "move_construct"}
      /\ (last' # last \/ MemberVars' # MemberVars))

\* C8 as stated: no step lowers totalBytesReceived or totalFramesReceived
\* except a connect() that newly establishes a connection, and that one sets
\* both to 0
CountersResetOnlyByConnect ==
    [][ /\ (total_bytes_received_' < total_bytes_received_
              \/ total_frames_received_' < total_frames_received_)
           => (pc = "accept" /\ last' = Call("connect", "ok", "true"))
        /\ (pc = "accept" /\ last' = Call("connect", "ok", "true"))
           => (/\ total_bytes_received_' = 0
               /\ total_frames_received_' = 0) ]_vars

\* C8 amended: two operations overwrite the counters. A connect() that newly
\* establishes a connection sets both to 0, and the move of a receiver into
\* this one (move assignment, move construction) makes both the counters of
\* that receiver, whatever they were, without any connect(). No other step
\* lowers them: not a receiveFrame, a disconnect, a failed or an
\* already-connected connect, and not being moved from
CountersMonotonic ==
    [][ /\ (SameReceiver /\ (total_bytes_received_' < total_bytes_received_
                                \/ total_frames_received_' < total_frames_received_))
           => (~connected_ /\ connected_' /\ last' = Call("connect", "ok", "true"))
        /\ (SameReceiver /\ ~connected_ /\ connected_')
           => (/\ last' = Call("connect", "ok", "true")
               /\ total_bytes_received_' = 0
               /\ total_frames_received_' = 0)
        /\ ~SameReceiver
           => \E src \in Sources :
                  /\ total_bytes_received_' = src.total_bytes_received_
                  /\ total_frames_received_' = src.total_frames_received_ ]_vars

\* C8 witness: a fresh connection reset counters that were not zero
CountersResetByReconnect ==
    /\ last = Call("connect", "ok", "true")
    /\ entry.total_frames >= 1
    /\ entry.total_bytes >= 1
    /\ total_frames_received_ = 0
    /\ total_bytes_received_ = 0

\* C26 as stated: connected_ becomes set only by a connect() that returns
\* true; no step of receiveFrame and no disconnect() sets it; a failed
\* receiveFrame leaves the receiver not connected, and a receiveFrame called
\* on a receiver that is not connected returns false at once
ConnectedOnlyByOwnConnect ==
    [][ /\ (~connected_ /\ connected_') => last' = Call("connect", "ok", "true")
        /\ (last'.op \in {"receiveFrame", "disconnect"} /\ connected_') => connected_
        /\ (last'.op = "receiveFrame" /\ last'.ret = "false") => ~connected_'
        /\ (~connected_ /\ pc = "idle" /\ last'.op = "receiveFrame" /\ ~OtherEnds) =>
               /\ last' = Call("receiveFrame", "not_connected", "false")
               /\ pc' = "idle" ]_vars

\* C26 amended: connected_ becomes set by a connect() that returns true on its
\* "ok" path, or by the move of a connected receiver into this one (move
\* assignment, move construction), which hands over its sockets and its
\* connected_ without a connect() of this receiver; no step of receiveFrame
\* and no disconnect() sets it; a failed receiveFrame leaves the receiver not
\* connected, and a receiveFrame called on a receiver that is not connected
\* returns false at once, without touching sockets, stream, counters or the
\* buffer (no retry inside the receiver)
ConnectedOnlyByConnect ==
    [][ /\ (SameReceiver /\ ~connected_ /\ connected_') => last' = Call("connect", "ok", "true")
        /\ (~SameReceiver /\ connected_') =>
               /\ other_receiver # <<>> /\ other_receiver[1].connected_
               /\ client_socket_' = other_receiver[1].client_socket_
        /\ (last'.op \in {"receiveFrame", "disconnect"} /\ connected_') => connected_
        /\ (last'.op = "receiveFrame" /\ last'.ret = "false") => ~connected_'
        /\ (~connected_ /\ pc = "idle" /\ last'.op = "receiveFrame" /\ ~OtherEnds) =>
               /\ last' = Call("receiveFrame", "not_connected", "false")
               /\ pc' = "idle"
               /\ ReceiverKept
               /\ UNCHANGED <<base, stream, rpos, peer_open, frame_buffer>> ]_vars

\* C26 witness: receiveFrame was called on a receiver left not connected by an
\* earlier failed receive (its client socket is still open) and returned false
ReceiveRefusedAfterFailure ==
    /\ last = Call("receiveFrame", "not_connected", "false")
    /\ ~connected_
    /\ client_socket_ # INVALID_SOCK
    /\ total_frames_received_ >= 1

\* the unsigned little-endian integer held by the first n bytes of s: the sum
\* of s[i + 1] * 256^i for i = 0 .. n - 1
RECURSIVE LittleEndian(_, _)
LittleEndian(s, n) ==
    IF n = 0 THEN 0 ELSE s[1] + 256 * LittleEndian(Tail(s), n - 1)

\* C31: with has_header set, receiveFrame takes exactly header_size bytes from
\* the stream before the payload and reads them (header_size being 1 to 4)
\* as the unsigned little-endian integer sum of byte_i * 256^i, from which the
\* frame length of the call is chosen; the payload is what follows them in the
\* stream, and no header byte is ever stored in the caller's buffer, which is
\* left alone while the header is read
HeaderDecoding ==
    config.has_header =>
        /\ pc = "header" =>
               /\ rpos = total_received
               /\ rpos < config.header_size
               /\ frame_buffer = entry.frame_buffer
        /\ HeaderSettled =>
               \E h \in { LittleEndian(stream, config.header_size) } :
                   /\ rpos >= config.header_size
                   /\ frame_size = IF h = 0 \/ h >= SANITY_LIMIT THEN getFrameSize ELSE h
                   /\ pc = "resize" =>
                          /\ rpos = config.header_size
                          /\ frame_buffer = entry.frame_buffer
                   /\ (pc = "payload" \/ (ReceiveFailed /\ last.at = "payload")) =>
                          /\ rpos = config.header_size + total_received
                          /\ Prefix(frame_buffer, total_received) =
                                 SubSeq(stream, config.header_size + 1, rpos)
                   /\ ReceiveSucceeded =>
                          /\ rpos = config.header_size + frame_size
                          /\ frame_buffer = Vec(SubSeq(stream, config.header_size + 1, rpos))

\* C31 witness: behind a frame that a 3-byte header had announced as 3 bytes
\* long, the 3-byte header <<255, 224, 245>> was read as
\* 255 + 224 * 256 + 245 * 65536 = 16113919
ThreeByteHeaderDecoded ==
    /\ config.has_header
    /\ config.header_size = 3
    /\ pc = "resize"
    /\ SubSeq(stream, 1, 3) = <<255, 224, 245>>
    /\ frame_size = 16113919
    /\ frame_buffer.size = 3
    /\ \A i \in 1..3 : At(frame_buffer, i) \in ByteVals

\* both socket handles of the receiver are valid, distinct and open
BothSocketsOpen ==
    /\ server_socket_ # INVALID_SOCK
    /\ client_socket_ # INVALID_SOCK
    /\ server_socket_ # client_socket_
    /\ server_socket_ \in open_fds
    /\ client_socket_ \in open_fds

\* C32: whenever connected_ is set, the client socket and the listening socket
\* are both valid and open; the converse does not hold: a receiveFrame that
\* failed in recv leaves the receiver not connected with both handles still
\* open (they are closed by the next disconnect())
SocketsValidWhileConnected ==
    /\ connected_ => BothSocketsOpen
    /\ (ReceiveFailed /\ last.path \in {"eof", "error"}) =>
           (~connected_ /\ BothSocketsOpen)

\* C32 witness: on a connection that had delivered a frame a receive failed in
\* the payload read; the receiver is not connected and holds both sockets open
HandlesOpenAfterFailedReceive ==
    /\ ReceiveFailed
    /\ last.at = "payload"
    /\ ~connected_
    /\ BothSocketsOpen
    /\ total_frames_received_ >= 1

\* C33: receiveFrame called on a receiver that is not connected returns false
\* at once: the call makes no recv (no byte of a stream is taken, the call is
\* over in its first step), and the caller's buffer, both counters, the socket
\* handles and the descriptor table are what they were before the call
NotConnectedReceive ==
    [][ /\ (~connected_ /\ pc = "idle" /\ last'.op = "receiveFrame" /\ ~OtherEnds) =>
               /\ last'.path = "not_connected"
               /\ last'.ret = "false"
               /\ pc' = "idle"
               /\ ~connected_'
               /\ rpos' = rpos /\ stream' = stream /\ base' = base
               /\ frame_buffer' = frame_buffer
               /\ total_bytes_received_' = total_bytes_received_
               /\ total_frames_received_' = total_frames_received_
               /\ ReceiverKept
        /\ last'.path = "not_connected" =>
               /\ ~connected_ /\ pc = "idle"
               /\ entry'.frame_buffer = frame_buffer
               /\ entry'.total_bytes = total_bytes_received_
               /\ entry'.total_frames = total_frames_received_ ]_vars

\* C33 witness: receiveFrame was called after disconnect() on a receiver whose
\* caller still holds the 2-byte frame of an earlier call; it returned false
\* and the buffer holds that frame
ReceiveRefusedAfterDisconnect ==
    /\ last = Call("receiveFrame", "not_connected", "false")
    /\ pc = "idle"
    /\ client_socket_ = INVALID_SOCK
    /\ server_socket_ = INVALID_SOCK
    /\ frame_buffer.size = 2
    /\ frame_buffer = entry.frame_buffer

\* the bytes recv returns in a step: what the step delivers of the stream of a
\* connection that is open before and after it
Delivered ==
    IF client_socket_ # INVALID_SOCK /\ client_socket_' = client_socket_
    THEN (base' + rpos') - (base + rpos)
    ELSE 0

\* a step in which a receiveFrame call returns true
ReturnsFrame == last' # last /\ last'.op = "receiveFrame" /\ last'.ret = "true"

\* C34 as stated (checked under SpecCounted): a step that newly establishes
\* a connection sets both counters to 0, and every other step adds to
\* total_bytes_received_ the bytes recv returned in it and to
\* total_frames_received_ 1 if a receiveFrame returned true in it
CountersOfThisReceiver ==
    [][ IF ~connected_ /\ connected_'
        THEN total_bytes_received_' = 0 /\ total_frames_received_' = 0
        ELSE /\ total_bytes_received_' = total_bytes_received_ + Delivered
             /\ total_frames_received_' =
                    total_frames_received_ + (IF ReturnsFrame THEN 1 ELSE 0) ]_vars

\* C34 amended (checked under SpecCounted): the move of a receiver into this
\* one (move assignment, move construction) makes both counters, and the
\* history of the frames returned, those of that receiver: 0 for a receiver
\* as constructed, else what that receiver or the one it got them from had
\* counted since its last newly established connection, whether it still
\* holds a socket or not. Apart from that total_bytes_received_ is the number of bytes recv has returned since the
\* connection was established, header bytes and the bytes of frames whose
\* receive failed included, and total_frames_received_ the number of
\* receiveFrame calls that returned true since then: a newly established
\* connection sets both to 0, every other step adds the bytes recv returned
\* in it and 1 if a receiveFrame returned true in it; a call that returned
\* true has added its header and its frame, a call that failed the bytes it
\* had read; hence total_bytes_received_ >= total_frames_received_ * (length
\* of the shortest frame returned)
CounterAccounting ==
    /\ [][ IF ~SameReceiver
           THEN \E src \in Sources :
                    /\ client_socket_' = src.client_socket_
                    /\ total_bytes_received_' = src.total_bytes_received_
                    /\ total_frames_received_' = src.total_frames_received_
                    /\ shortest_frame' = src.shortest
           ELSE IF ~connected_ /\ connected_'
           THEN total_bytes_received_' = 0 /\ total_frames_received_' = 0
           ELSE /\ total_bytes_received_' = total_bytes_received_ + Delivered
                /\ total_frames_received_' =
                       total_frames_received_ + (IF ReturnsFrame THEN 1 ELSE 0) ]_vars
    /\ [](/\ client_socket_ # INVALID_SOCK => total_bytes_received_ = base + rpos
          /\ ReceiveSucceeded =>
                 /\ total_bytes_received_ = entry.total_bytes + PayloadStart + frame_buffer.size
                 /\ total_frames_received_ = entry.total_frames + 1
                 /\ shortest_frame # <<>>
                 /\ shortest_frame[1] <= frame_buffer.size
          /\ (ReceiveFailed /\ last.path \in {"eof", "error"}) =>
                 /\ total_bytes_received_ = entry.total_bytes + rpos
                 /\ total_frames_received_ = entry.total_frames
          /\ (shortest_frame = <<>>) <=> (total_frames_received_ = 0)
          /\ shortest_frame # <<>> =>
                 total_bytes_received_ >= total_frames_received_ * shortest_frame[1])

\* C34 witness: behind a header, a 1-byte frame was returned and the receive
\* of the next frame failed after its header and one payload byte had been
\* read: two headers and two payload bytes are counted, and one frame
BytesOfFailedFrameCounted ==
    /\ config.has_header
    /\ ReceiveFailed
    /\ last.at = "payload"
    /\ total_received = 1
    /\ total_frames_received_ = 1
    /\ shortest_frame = <<1>>
    /\ total_bytes_received_ = 2 * config.header_size + 2

----------------------------------------------------------------------------
\* Properties of FrameUnpacker::unpack (checked under SpecUnpack)

\* C9 as stated: unpack of a buffer shorter than frame_size() returns 0 and
\* leaves the event store empty, whatever it held before
UndersizedYieldsEmptyStore ==
    (last.op = "unpack" /\ last.path = "undersized") =>
        /\ num_events = 0
        /\ events = <<>>

\* the bytes of a plane as the layout places them in the frame
PlaneBytes(cfg, plane) ==
    IF plane = "frame" THEN 0..(frame_size_of(cfg) - 1)
    ELSE IF plane = "pos"
    THEN PosOffset(cfg)..(PosOffset(cfg) + bytes_per_channel(cfg) - 1)
    ELSE NegOffset(cfg)..(NegOffset(cfg) + bytes_per_channel(cfg) - 1)

\* C10 as stated: every byte index unpack reads is inside the buffer it was
\* given, and a read made for one plane stays inside that plane
ReadsWithinBuffer ==
    \A r \in reads :
        /\ r.idx < Len(frame_data)
        /\ r.idx \in PlaneBytes(config, r.plane)

\* C11 as stated: every event of the store lies inside the frame, 0 <= x < width
\* and 0 <= y < height (so its pixel index is below pixels per frame and no
\* padding slot of the last byte is ever emitted)
EventsInsideFrame ==
    \A i \in 1..Len(events) :
        /\ 0 <= events[i].x /\ events[i].x < config.width
        /\ 0 <= events[i].y /\ events[i].y < config.height

\* unpack went past its size check on the layout variant v
DecodedBy(v) ==
    /\ config.variant = v
    /\ last.op = "unpack"
    /\ last.path = "decoded"

\* the 2-bit value of pixel p in the frame handed to unpack: bits 7-6 of byte
\* p div 4 for p mod 4 = 0, then 5-4, 3-2, 1-0
SlotValue(p) == (frame_data[(p \div 4) + 1] \div (2 ^ (6 - 2 * (p % 4)))) % 4

\* the store holds the single event (x, y, polarity)
OnlyEvent(x, y, polarity) ==
    /\ Len(events) = 1
    /\ events[1].x = x /\ events[1].y = y /\ events[1].polarity = polarity

\* frame_data is the byte v followed by zero bytes
LoneFirstByte(v) ==
    /\ Len(frame_data) >= 1
    /\ frame_data[1] = v
    /\ \A i \in 2..Len(frame_data) : frame_data[i] = 0

\* C12: 2-bit packed decoding is exact: the store holds one event for each
\* pixel p below pixels per frame whose slot holds 01 or 10, at x = p mod width,
\* y = p div width, polarity true for 01 and false for 10, and nothing else;
\* a lone first byte 0b01000000 gives exactly (0,0,true) and 0b10000000
\* exactly (0,0,false)
PackedExact ==
    DecodedBy("packed") =>
        LET lit == { p \in 0..(config.width * config.height - 1) : SlotValue(p) \in {1, 2} }
        IN  /\ Len(events) = Cardinality(lit)
            /\ \A p \in lit : \E i \in 1..Len(events) :
                   /\ events[i].x = p % config.width
                   /\ events[i].y = p \div config.width
                   /\ events[i].polarity = (SlotValue(p) = 1)
            /\ LoneFirstByte(64) => OnlyEvent(0, 0, TRUE)
            /\ LoneFirstByte(128) => OnlyEvent(0, 0, FALSE)

\* C12 witness: a 3x2 frame whose last byte holds 00 01 for pixels 4 and 5 and
\* 10 11 in its two padding slots was decoded into three events
PackedFrameWithPaddingDecoded ==
    /\ DecodedBy("packed")
    /\ config.width = 3
    /\ frame_data[1] = 228
    /\ frame_data[2] = 27
    /\ Len(events) = 3

\* unpack went past its size check on a planar layout
PlanarDecoded == DecodedBy("planar_fast") \/ DecodedBy("planar_ref")

\* the bit index of pixel (x, y): y*width+x row-major, x*height+y column-major
PixelBitIndex(x, y) ==
    IF config.row_major THEN y * config.width + x ELSE x * config.height + y

\* the first byte of a plane in the frame: the positive plane comes first when
\* positive_first is set, and a plane is (width*height) div 8 bytes long
PlaneStart(polarity) ==
    IF polarity = config.positive_first THEN 0 ELSE (config.width * config.height) \div 8

\* the bit of pixel (x, y) in the plane of `polarity` is set: bit b mod 8 of
\* the plane's byte b div 8 LSB-first, bit 7 - b mod 8 MSB-first, for the
\* pixel's bit index b; a pixel whose byte lies behind the plane has no bit
PlaneBitSet(polarity, x, y) ==
    LET b == PixelBitIndex(x, y)
        bit == IF config.msb_first THEN 7 - (b % 8) ELSE b % 8
    IN  /\ b \div 8 < (config.width * config.height) \div 8
        /\ (frame_data[PlaneStart(polarity) + (b \div 8) + 1] \div (2 ^ bit)) % 2 = 1

\* frame_data is all zero but for byte p (0-based), which holds v
LoneByteAt(p, v) ==
    /\ Len(frame_data) > p
    /\ \A i \in 1..Len(frame_data) : frame_data[i] = (IF i = p + 1 THEN v ELSE 0)

\* C13 as stated: planar decoding is exact in all 8 combinations of bit,
\* channel and scan order: the store holds one event (x, y, polarity) for each
\* pixel of the frame and each plane whose bit for that pixel is set, and
\* nothing else; on 8x8 row-major, bit 0 of byte 0 of the positive plane alone
\* gives (0,0) LSB-first and (7,0) MSB-first
PlanarExact ==
    PlanarDecoded =>
        LET lit == { l \in (0..(config.width - 1)) \X (0..(config.height - 1)) \X BOOLEAN :
                       PlaneBitSet(l[3], l[1], l[2]) }
        IN  /\ Len(events) = Cardinality(lit)
            /\ \A l \in lit : \E i \in 1..Len(events) :
                   /\ events[i].x = l[1]
                   /\ events[i].y = l[2]
                   /\ events[i].polarity = l[3]
            /\ (/\ config.width = 8 /\ config.height = 8 /\ config.row_major
                 /\ LoneByteAt(PlaneStart(TRUE), 1))
               => OnlyEvent(IF config.msb_first THEN 7 ELSE 0, 0, TRUE)

\* the layout cfg handed to the per-pixel unpacker
ForReference(cfg) == [cfg EXCEPT !.variant = "planar_ref"]

\* C14 as stated: on every planar layout and every buffer of at least
\* frame_size() bytes the table-driven unpacker leaves the same event sequence
\* (same events, same multiplicity, same order) as the per-pixel unpacker that
\* tests every bit, whatever that one finds behind the buffer
FastMatchesReference ==
    DecodedBy("planar_fast") =>
        \A behind \in Behind(ForReference(config), Len(frame_data)) :
            events = Decoded(ForReference(config),
                             Timestamp(config, frame_number),
                             frame_data \o behind)

\* C15 as stated: on every layout, unpack of a buffer of frame_size() bytes
\* that are all zero leaves no event and returns 0
ZeroFrameYieldsNoEvents ==
    (/\ last.op = "unpack"
     /\ last.path = "decoded"
     /\ Len(frame_data) = frame_size_of(config)
     /\ \A i \in 1..Len(frame_data) : frame_data[i] = 0)
    => (events = <<>> /\ num_events = 0)

\* C16: every event of a non-empty batch returned by unpack(.., k, ..) carries
\* the timestamp k * frame_interval_us, so all events of the batch share it
SharedTimestamp ==
    (last.op = "unpack" /\ num_events > 0) =>
        \A i \in 1..Len(events) :
            events[i].timestamp = frame_number * config.frame_interval_us

\* C16 witness: frame number 1 was decoded into a batch holding events of both
\* polarities
SecondFrameDecodedBothPolarities ==
    /\ last.op = "unpack"
    /\ frame_number = 1
    /\ num_events >= 2
    /\ \E i, j \in 1..Len(events) : events[i].polarity /\ ~events[j].polarity

\* C17 as stated: the store and the count a call leaves are a function of
\* (buffer bytes, buffer length, frame number, layout) alone: they are what the
\* same call leaves when it is the first call, made on an empty store,
\* whatever lies in memory behind the buffer
UnpackDeterministic ==
    last.op = "unpack" =>
        \A behind \in Behind(config, Len(frame_data)) :
            LET first == unpack(config, frame_data \o behind, Len(frame_data),
                                frame_number, <<>>)
            IN  events = first.events /\ num_events = first.ret

\* the least integer not below a / b
CeilDiv(a, b) == (a + b - 1) \div b

\* the frame size the layout calls for: ceil(width*height / 4) bytes 2-bit
\* packed, two planes of ceil(width*height / 8) bytes planar
ExpectedFrameSize ==
    IF config.variant = "packed"
    THEN CeilDiv(config.width * config.height, 4)
    ELSE 2 * CeilDiv(config.width * config.height, 8)

\* C23 as stated: frame_size() is ceil(width*height / 4) for the 2-bit packed
\* layout and 2 * ceil(width*height / 8) for the planar layout, also where
\* width*height is not a multiple of 4 or 8; so unpack takes a buffer for
\* undersized exactly when it is shorter than that
FrameSizeIsCeiling ==
    last.op = "unpack" =>
        /\ getFrameSize = ExpectedFrameSize
        /\ last.path = "undersized" <=> Len(frame_data) < ExpectedFrameSize

\* C25: round trip of the 2-bit packed format: when the sender has written
\* events at pairwise distinct pixels into a zeroed frame with set_pixel, in
\* any order, unpack of that frame returns exactly those (x, y, polarity)
\* events, each once
PackedRoundTrip ==
    (DecodedBy("packed") /\ Vec(frame_data) = frame_buffer) =>
        /\ Len(events) = Cardinality(set_pixels)
        /\ num_events = Cardinality(set_pixels)
        /\ \A e \in set_pixels : \E i \in 1..Len(events) :
               /\ events[i].x = e.x
               /\ events[i].y = e.y
               /\ events[i].polarity = e.polarity

\* C25 witness: a 3x3 frame in which pixels of both polarities, the last pixel
\* (2,2) among them, were written was decoded
RoundTripOfLastPixel ==
    /\ DecodedBy("packed")
    /\ config.width = 3 /\ config.height = 3
    /\ [x |-> 2, y |-> 2, polarity |-> FALSE] \in set_pixels
    /\ [x |-> 0, y |-> 1, polarity |-> TRUE] \in set_pixels
    /\ Cardinality(set_pixels) = 4
    /\ Len(events) = 4

\* the pixel index of an event: y * width + x
PixelIndexOf(e) == e.y * config.width + e.x

\* C27: the events of a 2-bit packed batch are in strictly ascending pixel
\* index order (bytes ascending, within a byte the slot in bits 7-6 first, then
\* 5-4, 3-2, 1-0), so no pixel appears twice
PackedOrder ==
    DecodedBy("packed") =>
        \A i, j \in 1..Len(events) :
            i < j => PixelIndexOf(events[i]) < PixelIndexOf(events[j])

\* C27 witness: the 3x2 frame <<27, 228>> was decoded into the events of pixels
\* 1 and 2 (slots 5-4 and 3-2 of byte 0) and 5 (slot 5-4 of byte 1)
PackedBatchAcrossBytes ==
    /\ DecodedBy("packed")
    /\ config.width = 3
    /\ frame_data = <<27, 228>>
    /\ Len(events) = 3
    /\ PixelIndexOf(events[1]) = 1
    /\ PixelIndexOf(events[3]) = 5

\* where in the frame the bit of an event lies: 8 * the offset of its byte in
\* the buffer + the place of its pixel among the 8 pixels of that byte
BitPlaceOf(e) == 8 * PlaneStart(e.polarity) + PixelBitIndex(e.x, e.y)

\* C28 as stated: the events of a planar batch are in ascending order of the
\* buffer offset of the byte they come from, for both channel orders (the
\* plane stored first in the buffer first), and the events of one byte are in
\* the order of its pixels
PlanarOrder ==
    PlanarDecoded =>
        \A i, j \in 1..Len(events) :
            i < j => BitPlaceOf(events[i]) < BitPlaceOf(events[j])

\* the first frame_size() bytes of the buffer handed to unpack
FramePrefix == SubSeq(frame_data, 1, getFrameSize)

\* C38 as stated: unpack depends only on the first frame_size() bytes of the
\* buffer: for a buffer longer than frame_size() no byte at or behind index
\* frame_size() is read, and the batch is the batch decoded from the
\* frame_size()-byte prefix of the buffer
DecodeIgnoresExtraBytes ==
    (last.op = "unpack" /\ Len(frame_data) > getFrameSize) =>
        /\ \A r \in reads : r.idx < getFrameSize
        /\ \A behind \in Behind(config, getFrameSize) :
               events = Decoded(config, Timestamp(config, frame_number),
                                FramePrefix \o behind)

----------------------------------------------------------------------------
\* Properties of main (checked under SpecMain and SpecMainFair)

\* main has taken a step (the signal handler and the peer leave both alone)
MainMoved == dpc' # dpc \/ last' # last

\* what C18 says up to the successful reconnect: on a failed receiveFrame with
\* running set main calls disconnect() and then connect() once, a failed
\* connect() ends the loop, and nothing is decoded, written or counted
ReconnectOnce ==
    /\ (dpc = "failed" /\ running /\ MainMoved) =>
           (dpc' = "disconnect" /\ last' = last)
    /\ (dpc = "disconnect" /\ MainMoved) =>
           (last'.op = "disconnect" /\ dpc' = "reconnect")
    /\ (dpc = "reconnect" /\ MainMoved) =>
           /\ last'.op = "connect"
           /\ last'.ret = "false" => dpc' = "cleanup"
           /\ last'.ret = "true" => dpc' = "head"
           \* one call: the step that leaves it waiting in accept() begins
           \* it, and the step that follows is the return of that accept()
           /\ last'.ret = "pending" => (pc = "idle" /\ pc' = "accept" /\ dpc' = "reconnect")
           /\ pc = "accept" => last'.path \in AcceptOutcomes
    /\ recovering =>
           /\ frame_count' = frame_count
           /\ sink' = sink
           /\ events' = events
           /\ last'.op # "unpack"

\* the latest call is the successful connect() of a reconnect
Reconnected == recovering /\ last.op = "connect" /\ last.ret = "true"

\* C18 as stated: ... and after a successful reconnect the next call main makes
\* on the receiver is receiveFrame
ReconnectThenReceive ==
    [][ /\ ReconnectOnce
        /\ (Reconnected /\ last' # last) => last'.op = "receiveFrame" ]_vars

\* C18 amended: ... and after a successful reconnect the next call main makes
\* on the receiver is receiveFrame, unless running was cleared before the loop
\* head was evaluated again: then the loop ends and the next call is the
\* disconnect() after the loop
ReconnectThenReceiveUnlessCancelled ==
    [][ /\ ReconnectOnce
        /\ (Reconnected /\ last' # last) =>
               \/ last'.op = "receiveFrame"
               \/ (~running /\ dpc = "cleanup" /\ last'.op = "disconnect") ]_vars

\* C18 witness: after one frame was processed a receive failed, main
\* reconnected and is about to call receiveFrame again
ReceiveAfterReconnect ==
    /\ Reconnected
    /\ dpc = "receive"
    /\ frame_count = 1

\* C19 as stated: while running is set, a failed reconnect attempt does not end
\* the loop (another attempt follows)
FailedReconnectRetried ==
    (recovering /\ running /\ last.op = "connect" /\ last.ret = "false") =>
        dpc \notin {"cleanup", "exit", "done"}

\* main has returned and the receiver is disconnected
MainEndedDisconnected ==
    /\ dpc = "done"
    /\ ~connected_
    /\ client_socket_ = INVALID_SOCK
    /\ server_socket_ = INVALID_SOCK

\* C20: once running is cleared main leaves the loop and the receiver ends
\* disconnected (every blocking call returning sooner or later); and when
\* running is already clear as a receiveFrame failure is looked at, main goes
\* to the loop head and out of the loop without a call on the receiver
CooperativeTermination ==
    /\ ~running ~> MainEndedDisconnected
    /\ [][ (~running /\ dpc \in {"failed", "head"} /\ MainMoved) =>
              /\ last' = last
              /\ dpc' = IF dpc = "failed" THEN "head" ELSE "cleanup" ]_vars

\* C20 witness: running was cleared while a receive was failing; main has
\* returned after writing a batch, the receiver disconnected
CancelledAndEnded ==
    /\ MainEndedDisconnected
    /\ ~running
    /\ ~recovering
    /\ Len(sink) = 1

\* the frame main has just decoded holds no event: it is shorter than the
\* layout's frame size, or all its bytes are zero
FrameWithoutEvents ==
    \/ Len(frame_data) < getFrameSize
    \/ \A i \in 1..Len(frame_data) : frame_data[i] = 0

\* C21: main hands a batch to the sink if and only if the unpack of the frame
\* just received returned a count above zero: between an unpack and the next
\* receiveFrame call there is exactly one step that may write, it appends the
\* decoded batch when the count is positive and leaves the sink alone when it
\* is zero, nothing else ever changes the sink, and an undersized or all-zero
\* frame gives the count zero (on the 2-bit packed layout main is run with);
\* so the batches of the sink are non-empty and belong to different frames
SubmitIffNonEmpty ==
    [][ /\ sink' # sink =>
               /\ dpc = "write"
               /\ num_events > 0
               /\ events # <<>>
               /\ sink' = Append(sink, events)
        /\ (dpc = "unpack" /\ MainMoved) => (last'.op = "unpack" /\ dpc' = "write")
        /\ (dpc = "write" /\ MainMoved) =>
               /\ dpc' = "head"
               /\ last' = last
               /\ Vec(frame_data) = frame_buffer
               /\ FrameWithoutEvents => num_events = 0
               /\ num_events > 0 => sink' = Append(sink, events)
               /\ num_events = 0 => sink' = sink
        /\ (last' # last /\ last'.op = "receiveFrame" /\ last'.path \in {"not_connected", "running"})
               => dpc = "receive"
        /\ \A i \in 1..Len(sink) :
               /\ sink[i] # <<>>
               /\ \A j \in (i + 1)..Len(sink) : sink[i][1].timestamp < sink[j][1].timestamp
      ]_vars

\* C21 witness: the first frame gave a batch that was written, the second frame
\* was undersized: nothing was written for it although the store still holds
\* the first batch
UndersizedFrameNotSubmitted ==
    /\ dpc = "head"
    /\ frame_count = 2
    /\ last.op = "unpack" /\ last.path = "undersized"
    /\ events # <<>>
    /\ Len(sink) = 1

\* C24 as stated: with a non-positive width or height the construction of the
\* components fails fatally: main never connects, receives or decodes, and the
\* loop is never entered
NonPositiveResolutionRejected ==
    (config.width <= 0 \/ config.height <= 0) =>
        /\ dpc \in {"start", "aborted"}
        /\ last.op = "init"

\* C29: main decodes the n-th successfully received frame (n = 0, 1, ...) with
\* frame number n: a frame is decoded exactly when receiveFrame has returned
\* true, with frame_number = frame_count; frame_count goes up by one after
\* each decoded frame, whether or not a batch was written, and at no other
\* step, so a failed receive and the reconnect after it leave it alone
FrameNumbering ==
    [][ /\ (dpc' = "unpack" /\ dpc # "unpack") =>
               (dpc = "receiving" /\ last' = Call("receiveFrame", "complete", "true"))
        /\ (dpc = "receiving" /\ last'.ret = "true") => dpc' = "unpack"
        /\ (dpc = "unpack" /\ MainMoved) =>
               /\ last'.op = "unpack"
               /\ frame_number' = frame_count
               /\ dpc' = "write"
        /\ (dpc = "write" /\ MainMoved) =>
               /\ frame_number = frame_count
               /\ frame_count' = frame_count + 1
        /\ dpc # "write" => frame_count' = frame_count
        /\ (last'.op = "receiveFrame" /\ last'.ret = "false" /\ last' # last) =>
               (dpc' = "failed" /\ frame_count' = frame_count)
        /\ \A i \in 1..Len(sink) :
               \E n \in 0..(frame_count - 1) :
                   sink[i][1].timestamp = n * config.frame_interval_us ]_vars

\* C29 witness: the second frame main received was the first frame of a new
\* connection (a receive had failed in between); it was decoded as frame 1
NumberKeptAcrossReconnect ==
    /\ dpc = "head"
    /\ frame_count = 2
    /\ last.op = "unpack"
    /\ frame_number = 1
    /\ total_frames_received_ = 1

\* the latest call main made is an unpack that found its frame undersized
AfterUndersized == last = Call("unpack", "undersized", "none")

\* C30: when a frame receiveFrame returned is shorter than frame_size() (its
\* header announced a smaller length), main writes nothing for it and goes back
\* to the loop head with the connection as it is: no disconnect() and no
\* connect() is made because of it, and the next receiveFrame is made on the
\* same connection and starts reading right behind the short frame's last
\* byte. (The only other call that can follow is the disconnect() after the
\* loop, when running was cleared in the meantime.)
UndersizedRecovery ==
    [][ /\ AfterUndersized =>
               /\ connected_
               /\ config.has_header
               /\ frame_buffer.size < getFrameSize
               /\ rpos = config.header_size + frame_buffer.size
               /\ frame_buffer = Vec(SubSeq(stream, config.header_size + 1, rpos))
               /\ dpc \in {"write", "head", "receive", "cleanup"}
               /\ dpc = "cleanup" => ~running
        /\ (AfterUndersized /\ dpc = "write" /\ MainMoved) =>
               /\ sink' = sink
               /\ dpc' = "head"
               /\ last' = last
        /\ (AfterUndersized /\ last' # last) =>
               \/ /\ dpc = "receive"
                  /\ last' = Call("receiveFrame", "running", "pending")
                  /\ UNCHANGED ObjVars
                  /\ base' = base + rpos
                  /\ stream' = SubSeq(stream, rpos + 1, Len(stream))
                  /\ rpos' = 0
               \/ /\ ~running
                  /\ dpc = "cleanup"
                  /\ last'.op = "disconnect" ]_vars

\* C30 witness: the first frame of the connection was a 1-byte frame behind a
\* 1-byte header; nothing was written for it, and the second receiveFrame
\* returned the frame that starts at byte 2 of the stream
ReceivedBehindShortFrame ==
    /\ dpc = "unpack"
    /\ last = Call("receiveFrame", "complete", "true")
    /\ frame_count = 1
    /\ Len(frame_data) = 1
    /\ num_events = 0
    /\ sink = <<>>
    /\ total_frames_received_ = 2
    /\ base = 2

\* the 2-bit value of pixel p in the buffer receiveFrame filled
BufferSlot(p) == (At(frame_buffer, (p \div 4) + 1) \div (2 ^ (6 - 2 * (p % 4)))) % 4

\* the pixels of the layout whose slot in frame_buffer holds an event
LitInBuffer ==
    { p \in 0..(config.width * config.height - 1) : BufferSlot(p) \in {1, 2} }

\* C35: the sink never receives stale events: whenever main hands a batch to
\* the sink, the latest receiveFrame returned true and left in frame_buffer
\* the payload it read, that buffer is at least frame_size() bytes long and was
\* decoded by the latest unpack with frame number frame_count, and the batch
\* holds exactly one event for each event slot of that buffer, every one with
\* the timestamp frame_count * frame_interval_us; an undersized frame leaves
\* the store as it was and nothing is handed to the sink for it
NoStaleEvents ==
    [][ /\ sink' # sink =>
               /\ dpc = "write"
               /\ sink' = Append(sink, events)
               /\ last = Call("unpack", "decoded", "none")
               /\ total_frames_received_ >= 1
               /\ frame_buffer = Vec(SubSeq(stream, PayloadStart + 1, rpos))
               /\ frame_buffer.size >= getFrameSize
               /\ Vec(frame_data) = frame_buffer
               /\ frame_number = frame_count
               /\ Len(events) = Cardinality(LitInBuffer)
               /\ \A i \in 1..Len(events) :
                      /\ events[i].timestamp = frame_count * config.frame_interval_us
                      /\ PixelIndexOf(events[i]) \in LitInBuffer
                      /\ events[i].polarity = (BufferSlot(PixelIndexOf(events[i])) = 1)
        /\ (dpc = "write" /\ MainMoved /\ last.path = "undersized") =>
               /\ num_events = 0
               /\ sink' = sink ]_vars

\* C35 witness: the first frame gave a batch that was written; the second
\* frame is undersized and main is about to decide whether to write, with the
\* events of the first frame still in the store
StaleEventsInStore ==
    /\ dpc = "write"
    /\ last = Call("unpack", "undersized", "none")
    /\ frame_count = 1
    /\ Len(sink) = 1
    /\ events = sink[1]
    /\ events # <<>>
    /\ events[1].timestamp = 0

\* every event of batch a is earlier than every event of batch b
BatchBefore(a, b) ==
    \A i \in 1..Len(a), j \in 1..Len(b) : a[i].timestamp < b[j].timestamp

\* C36: with frame_interval_us > 0 the timestamps of the batches handed to the
\* sink are strictly increasing over the whole run: every batch main appends
\* is later than every batch already in the sink, also when receives failed
\* and main reconnected in between; a connect() that establishes a connection
\* zeroes the receiver's total_frames_received_ and leaves frame_count, which
\* never goes down
IncreasingBatchTimestamps ==
    [][ /\ config.frame_interval_us > 0
        /\ sink' # sink =>
               /\ sink' = Append(sink, events)
               /\ events # <<>>
               /\ \A i \in 1..Len(sink) : BatchBefore(sink[i], events)
        /\ (last' # last /\ last' = Call("connect", "ok", "true")) =>
               /\ total_frames_received_' = 0
               /\ frame_count' = frame_count
        /\ frame_count' >= frame_count
        /\ \A i \in 1..Len(sink') : \A j \in (i + 1)..Len(sink') :
               BatchBefore(sink'[i], sink'[j]) ]_vars

\* C36 witness: a batch was written, a receive failed, main reconnected, and
\* the first frame of the new connection gave the second batch, stamped one
\* frame interval later
BatchesAcrossReconnect ==
    /\ Len(sink) = 2
    /\ total_frames_received_ = 1
    /\ frame_count = 2
    /\ sink[1][1].timestamp = 0
    /\ sink[2][1].timestamp = config.frame_interval_us

\* main is past its loop
LoopLeft == dpc \in {"cleanup", "exit", "done"}

\* C37 (checked under SpecCancel): once running is cleared, main hands at most
\* one more batch to the sink, and that one in the iteration it was in when
\* the flag was cleared (the batch of the receiveFrame in progress or about to
\* be called); when main finds the flag cleared at the loop head it leaves the
\* loop without a call, and past the loop it makes no receiveFrame, unpack or
\* connect call and writes nothing; the flag is never set again
OneBatchAfterCancel ==
    /\ []((batches_at_cancel # <<>>) <=> ~running)
    /\ [](batches_at_cancel # <<>> => Len(sink) <= batches_at_cancel[1] + 1)
    /\ [][ /\ ~running => ~running'
           /\ (~running /\ sink' # sink) =>
                  /\ dpc = "write"
                  /\ dpc' = "head"
                  /\ Len(sink) = batches_at_cancel[1]
                  /\ sink' = Append(sink, events)
           /\ (~running /\ dpc = "head" /\ MainMoved) =>
                  (dpc' = "cleanup" /\ last' = last)
           /\ LoopLeft =>
                  /\ LoopLeft'
                  /\ sink' = sink
                  /\ frame_count' = frame_count
                  /\ last' # last => last'.op = "disconnect" ]_vars

\* C37 witness: running was cleared when one batch had been written and the
\* next frame was being received or decoded; its batch was written too, and
\* main has left the loop and returned
BatchOfFrameInProgressWritten ==
    /\ batches_at_cancel = <<1>>
    /\ Len(sink) = 2
    /\ dpc = "done"
    /\ frame_count = 2

----------------------------------------------------------------------------
\* Properties of the datagram receiver (checked under SpecUdp)

\* C22: whatever the sizes of the datagrams, every successful receiveFrame of
\* the datagram receiver returns exactly frame_size() bytes, the k-th one
\* (k = 1, 2, ...) bytes (k-1)*F+1 .. k*F of the concatenated datagram
\* payloads, and the bytes received beyond the frames handed out so far are
\* kept, in order, as the beginning of the next frame
DatagramCarryOver ==
    LET all == Concatenated(datagrams)
        F == getFrameSize
    IN  /\ carry_over = SubSeq(all, total_frames_received_ * F + 1, Len(all))
        /\ ReceiveSucceeded =>
               /\ frame_buffer.size = F
               /\ frame_buffer = Vec(SubSeq(all, (total_frames_received_ - 1) * F + 1,
                                            total_frames_received_ * F))

\* C22 witness: a 2-byte and a 4-byte datagram gave two 3-byte frames; the
\* second frame was returned without another datagram being received
TwoFramesFromUnalignedDatagrams ==
    /\ ReceiveSucceeded
    /\ getFrameSize = 3
    /\ total_frames_received_ = 2
    /\ Len(datagrams) = 2
    /\ Len(datagrams[1]) = 2
    /\ Len(datagrams[2]) = 4
    /\ frame_buffer = Vec(<<2, 1, 2>>)
    /\ carry_over = <<>>

====